---- MODULE Spec2Model ----
(***************************************************************************)
(* OrionFieldStack: the ShutterPro03 capture pipeline (shutterpro03.py,    *)
(* sp03_logger.py) and the SkySolverEngine annotator (SSE.py).             *)
(*                                                                         *)
(* Three threads of one process (main's capture loop, downloader_worker,   *)
(* analyzer_worker) talk through two queue.Queue objects; the annotator is *)
(* a separate process that shares only the three log files with the        *)
(* analyzer.  Every action below is one step between two suspension points *)
(* (a sleep, a network call, a file open/close) of the code it models.     *)
(***************************************************************************)
EXTENDS Integers, Sequences, FiniteSets, TLC

\* ------------------------------------------------------------ bounds
MaxShots == 2        \* triggers a run may issue (caps the unlimited mode too)
MaxFiles == 2        \* files the remote store shows during a run
MaxSize == 1         \* largest file size a listing reports
MaxFetchFail == 1    \* fetches the remote store fails in a run (fails_left counts down)
MaxFeed == 2         \* records waiting for the analyzer in SpecRecon
MaxRetryFail == 2    \* fetches the remote store fails in SpecDown
MaxRuns == 2         \* process_latest runs in one behaviour
MaxTele == 1         \* distinct readings the INDI server gives in a run
MaxStab == 2         \* largest file size reported in SpecStab
MaxHour == 1         \* RA texts of every minute and second of hours 0..MaxHour
MaxFrac == 3         \* fraction digits of a decimal text

\* ------------------------------------------------------------ program constants
PollBudget == 25     \* for _ in range(25)
DecodeBudget == 5    \* for attempt in range(5)
LastLatitude == 34   \* _get_config_val('LAST_LATITUDE', 'SYSTEM', 34.6493)

Sizes == 0..MaxSize
AcceptedExt == {"dng", "jpg"}
Exts == {"dng", "txt"}
NoTarget == ""
Target == "/DCIM/100__TSB"

VARIABLES
  \* main()
  m_pc, target_shots, shot_count, shutter, interrupted, triggers, pushed,
  \* the INDI server's answer to indi_getprop (NoValue: unreachable, or no
  \* value for any property), main's obs_data, and the number of
  \* get_observation_data() calls of the capture loop
  indi_src, obs_data, queries,
  \* the RA and DEC property values one get_observation_data() call reads,
  \* and the display strings the conversions make of them
  conv_in, conv_out,
  \* queue.Queue objects and the threading.Event
  download_q, unfinished_d, analysis_q, unfinished_a, stop_event,
  \* the remote store: remote[i] is the extension of the i-th listed file
  remote,
  \* downloader_worker locals
  d_pc, last_target, known_files, listing, idx, shot_data, current_fsize,
  poll_i, fails_left,
  \* history of the downloader's observations and hand-offs; cold tells whether
  \* the walk in progress is over the first successful file listing
  last_obs, obs_stable, pairings, forwarded, cold,
  \* analyzer_worker locals
  a_pc, shot, attempt, ex, h,
  \* the log directory: shutter_log.csv (its comment and header lines, its
  \* data rows), latest_shot.json, shutter_log.json; unsynced is the set of
  \* these files holding a write the kernel has not yet put on stable storage
  csv_head, csv, pointer, history, unsynced,
  \* SkySolverEngine locals
  s_pc, s_target, s_res, s_data, s_hist, s_rows, s_runs, s_outcome,
  \* the engine's --force and --allsky flags, the ra_hint a run read, and the
  \* try_solve calls of the last solve with their outcomes
  force_mode, all_sky_enabled, s_hint, s_passes

teleVars == <<indi_src, obs_data, queries>>
convVars == <<conv_in, conv_out>>
mainVars == <<m_pc, target_shots, shot_count, shutter, interrupted, triggers, pushed>>
queueVars == <<download_q, unfinished_d, analysis_q, unfinished_a, stop_event>>
downVars == <<d_pc, last_target, known_files, listing, idx, shot_data,
              current_fsize, poll_i, fails_left, last_obs, obs_stable, pairings,
              forwarded, cold>>
anaVars == <<a_pc, shot, attempt, ex, h>>
fileVars == <<csv_head, csv, pointer, history, unsynced>>
sseFlags == <<force_mode, all_sky_enabled>>
sseVars == <<s_pc, s_target, s_res, s_data, s_hist, s_rows, s_runs, s_outcome,
             sseFlags, s_hint, s_passes>>
vars == <<mainVars, teleVars, convVars, queueVars, remote, downVars, anaVars, fileVars, sseVars>>

\* ------------------------------------------------------------ IndiClient
\* _get_prop returns None when indi_getprop fails (server unreachable, no such
\* device) or prints no value; a reading is one number for every property.
NoValue == 0
Sources == NoValue..MaxTele

\* get_observation_data(): the site falls back to the configured last known
\* position when LAT/LONG do not convert (float(None) raises), ra_deg stays
\* None without an RA, _fmt gives None for a missing weather value.
GetObservationData(src) ==
  [latitude |-> IF src = NoValue THEN LastLatitude ELSE src,
   tz_source |-> IF src = NoValue THEN "last_known" ELSE "gps",
   ra_deg |-> src,
   weather_temp |-> src]

\* obs_data before the first call and after the record took it
NoObs == [latitude |-> NoValue, tz_source |-> "", ra_deg |-> NoValue,
          weather_temp |-> NoValue]

\* The INDI server goes away, comes back, or the mount and the weather move on.
E_Telemetry ==
  /\ \E src \in Sources \ {indi_src} : indi_src' = src
  /\ UNCHANGED <<obs_data, queries, convVars>>
  /\ UNCHANGED <<mainVars, queueVars, remote, downVars, anaVars, fileVars, sseVars>>

\* ------------------------------------------------------------ Python floats
\* float is the IEEE-754 double: a sign and a magnitude of at most MantBits
\* significant bits, every operation rounded to nearest, ties to even.  The
\* magnitude is held exactly, in units of 2^-(FracLimbs * LimbBits) / FracRest,
\* as NLimbs limbs of LimbBits bits, least significant first.
MantBits == 53
LimbBits == 15
LimbBase == 2^LimbBits
NLimbs == 6
FracLimbs == 4
FracRest == 2^10

Limbs == 1..NLimbs
One == [i \in Limbs |-> IF i = 1 THEN 1 ELSE 0]

RECURSIVE IntBits(_)
IntBits(k) == IF k = 0 THEN 0 ELSE 1 + IntBits(k \div 2)

RECURSIVE TopLimb(_, _)
TopLimb(n, i) == IF i = 0 THEN 0 ELSE IF n[i] # 0 THEN i ELSE TopLimb(n, i - 1)

BitLen(n) ==
  LET i == TopLimb(n, NLimbs)
  IN  IF i = 0 THEN 0 ELSE (i - 1) * LimbBits + IntBits(n[i])

RECURSIVE MulFrom(_, _, _, _)
MulFrom(n, c, i, carry) ==
  IF i > NLimbs THEN <<>>
  ELSE LET cur == n[i] * c + carry
       IN  <<cur % LimbBase>> \o MulFrom(n, c, i + 1, cur \div LimbBase)

MulSmall(n, c) == MulFrom(n, c, 1, 0)

\* <<quotient, remainder>> of n by the small divisor c
RECURSIVE DivTop(_, _, _, _)
DivTop(n, c, i, rem) ==
  IF i = 0 THEN <<<<>>, rem>>
  ELSE LET cur == rem * LimbBase + n[i]
           lower == DivTop(n, c, i - 1, cur % c)
       IN  <<Append(lower[1], cur \div c), lower[2]>>

DivSmall(n, c) == DivTop(n, c, NLimbs, 0)

RECURSIVE AddFrom(_, _, _, _)
AddFrom(a, b, i, carry) ==
  IF i > NLimbs THEN <<>>
  ELSE LET cur == a[i] + b[i] + carry
       IN  <<cur % LimbBase>> \o AddFrom(a, b, i + 1, cur \div LimbBase)

Add(a, b) == AddFrom(a, b, 1, 0)

RECURSIVE SubFrom(_, _, _, _)
SubFrom(a, b, i, borrow) ==
  IF i > NLimbs THEN <<>>
  ELSE LET cur == a[i] - b[i] - borrow
       IN  IF cur < 0 THEN <<cur + LimbBase>> \o SubFrom(a, b, i + 1, 1)
           ELSE <<cur>> \o SubFrom(a, b, i + 1, 0)

Sub(a, b) == SubFrom(a, b, 1, 0)

RECURSIVE LessFrom(_, _, _)
LessFrom(a, b, i) ==
  IF i = 0 THEN FALSE
  ELSE IF a[i] # b[i] THEN a[i] < b[i] ELSE LessFrom(a, b, i - 1)

Less(a, b) == LessFrom(a, b, NLimbs)

\* n shifted right by t bits, and whether a set bit was shifted out
ShiftRight(n, t) ==
  LET a == t \div LimbBits
      qr == DivSmall([i \in Limbs |-> IF i + a <= NLimbs THEN n[i + a] ELSE 0],
                     2^(t % LimbBits))
  IN  <<qr[1], qr[2] # 0 \/ \E i \in 1..a : n[i] # 0>>

ShiftLeft(n, t) ==
  LET a == t \div LimbBits
  IN  MulSmall([i \in Limbs |-> IF i > a THEN n[i - a] ELSE 0], 2^(t % LimbBits))

\* the double nearest to the exact magnitude n (plus a fraction of a unit
\* when inexact), ties to even
Round(n, inexact) ==
  LET len == BitLen(n)
  IN  IF len <= MantBits THEN n
      ELSE LET t == len - MantBits
               low == ShiftRight(n, t - 1)
               q == DivSmall(low[1], 2)[1]
               sticky == inexact \/ low[2]
               up == low[1][1] % 2 = 1 /\ (sticky \/ q[1] % 2 = 1)
           IN  ShiftLeft(IF up THEN Add(q, One) ELSE q, t)

\* the magnitude of the integer k >= 0
Mag(k) ==
  [i \in Limbs |->
     IF i = FracLimbs + 1 THEN (k * FracRest) % LimbBase
     ELSE IF i = FracLimbs + 2 THEN (k * FracRest) \div LimbBase
     ELSE 0]

Floor(n) == (n[FracLimbs + 1] + n[FracLimbs + 2] * LimbBase) \div FracRest

None == [neg |-> FALSE, mag |-> <<>>]
Float(neg, k) == [neg |-> neg, mag |-> Mag(k)]

\* x + y
FAdd(x, y) ==
  IF x.neg = y.neg THEN [neg |-> x.neg, mag |-> Round(Add(x.mag, y.mag), FALSE)]
  ELSE IF x.mag = y.mag THEN Float(FALSE, 0)
  ELSE IF Less(x.mag, y.mag)
       THEN [neg |-> y.neg, mag |-> Round(Sub(y.mag, x.mag), FALSE)]
       ELSE [neg |-> x.neg, mag |-> Round(Sub(x.mag, y.mag), FALSE)]

\* x - y
FSub(x, y) == FAdd(x, [neg |-> ~y.neg, mag |-> y.mag])

\* x * c and x / c for an integer-valued float c > 0
FMul(x, c) == [neg |-> x.neg, mag |-> Round(MulSmall(x.mag, c), FALSE)]

FDiv(x, c) ==
  LET qr == DivSmall(x.mag, c)
  IN  [neg |-> x.neg, mag |-> Round(qr[1], qr[2] # 0)]

\* sign * x for sign = 1 or -1
Signed(sign, x) == [neg |-> IF sign < 0 THEN ~x.neg ELSE x.neg, mag |-> x.mag]

\* x % 24: fmod, then + 24 when the remainder is negative
Mod24(x) ==
  LET r == Sub(x.mag, Mag(24 * (Floor(x.mag) \div 24)))
  IN  IF r = Mag(0) THEN Float(FALSE, 0)
      ELSE IF x.neg THEN FAdd([neg |-> TRUE, mag |-> r], Float(FALSE, 24))
      ELSE [neg |-> FALSE, mag |-> r]

\* int(x), x >= 0
Trunc(x) == Floor(x.mag)

\* ------------------------------------------------------------ Python strings
\* A str is the sequence of its characters; a property value is a str or None.
Digit == <<"0", "1", "2", "3", "4", "5", "6", "7", "8", "9">>

IsDigit(c) == \E d \in 1..10 : Digit[d] = c
DigitVal(c) == (CHOOSE d \in 1..10 : Digit[d] = c) - 1

RECURSIVE Decimal(_)
Decimal(n) == IF n < 10 THEN <<Digit[n + 1]>> ELSE Append(Decimal(n \div 10), Digit[(n % 10) + 1])

\* f"{n:02d}"
Fmt02(n) == IF n < 10 THEN <<"0", Digit[n + 1]>> ELSE Decimal(n)

NoText == [some |-> FALSE, text |-> <<>>]
Text(t) == [some |-> TRUE, text |-> t]
Truthy(val) == val.some /\ val.text # <<>>

\* str(val)
Str(val) == IF val.some THEN val.text ELSE <<"N", "o", "n", "e">>

\* t.split(sep)
RECURSIVE Split(_, _)
Split(t, sep) ==
  IF \A i \in 1..Len(t) : t[i] # sep THEN <<t>>
  ELSE LET i == CHOOSE j \in 1..Len(t) : t[j] = sep /\ \A k \in 1..(j - 1) : t[k] # sep
       IN  <<SubSeq(t, 1, i - 1)>> \o Split(SubSeq(t, i + 1, Len(t)), sep)

RECURSIVE DigitsVal(_)
DigitsVal(t) == IF t = <<>> THEN 0 ELSE DigitsVal(SubSeq(t, 1, Len(t) - 1)) * 10 + DigitVal(t[Len(t)])

\* float(t) for a text of an optional sign, digits and at most MaxFrac
\* fraction digits; None for a text float() raises ValueError on
PyFloat(t) ==
  LET signed == t # <<>> /\ t[1] \in {"-", "+"}
      body == IF signed THEN SubSeq(t, 2, Len(t)) ELSE t
      parts == Split(body, ".")
      digits == IF Len(parts) = 2 THEN parts[1] \o parts[2] ELSE parts[1]
      frac == IF Len(parts) = 2 THEN Len(parts[2]) ELSE 0
  IN  IF Len(parts) > 2 \/ digits = <<>> \/ frac > MaxFrac
         \/ \E i \in 1..Len(digits) : ~IsDigit(digits[i])
      THEN None
      ELSE FDiv(Float(signed /\ t[1] = "-", DigitsVal(digits)), 10^frac)

\* ------------------------------------------------------------ sexagesimal conversions
ZeroHms == <<"0", "0", ":", "0", "0", ":", "0", "0">>
ZeroDms == <<"+">> \o ZeroHms

parse_sexagesimal(val) ==
  IF ~val.some THEN None
  ELSE LET parts == Split(val.text, ":")
           d == PyFloat(parts[1])
           m == PyFloat(parts[2])
           s == IF Len(parts) > 2 THEN PyFloat(parts[3]) ELSE Float(FALSE, 0)
           sign == IF (d.neg /\ d.mag # Mag(0)) \/ (parts[1] # <<>> /\ parts[1][1] = "-")
                   THEN -1 ELSE 1
       IN  IF Len(parts) < 2 THEN PyFloat(val.text)
           ELSE IF None \in {d, m, s} THEN None
           ELSE FAdd(FAdd(d, FDiv(Signed(sign, m), 60)), FDiv(Signed(sign, s), 3600))

\* h, m, s of a value v >= 0: the truncations of to_hms and to_dms
Sexagesimal(v) ==
  LET hh == Trunc(v)
      f == FMul(FSub(v, Float(FALSE, hh)), 60)
      mm == Trunc(f)
      ss == Trunc(FMul(FSub(f, Float(FALSE, mm)), 60))
  IN  Fmt02(hh) \o <<":">> \o Fmt02(mm) \o <<":">> \o Fmt02(ss)

to_hms(val) == IF val = None THEN ZeroHms ELSE Sexagesimal(Mod24(val))

to_dms(val) ==
  IF val = None THEN ZeroDms
  ELSE <<IF val.neg /\ val.mag # Mag(0) THEN "-" ELSE "+">>
       \o Sexagesimal([neg |-> FALSE, mag |-> val.mag])

deg_to_hms(val) == IF val = None THEN ZeroHms ELSE Sexagesimal(Mod24(FDiv(val, 15)))

deg_to_dms(val) == to_dms(val)

\* the ra_hms and dec_dms fields get_observation_data returns
RaHms(ra_raw) ==
  LET r_val == parse_sexagesimal(ra_raw)
      ra_deg == IF Truthy(ra_raw) /\ r_val # None THEN FMul(r_val, 15) ELSE None
  IN  IF ra_deg # None THEN deg_to_hms(ra_deg) ELSE Str(ra_raw)

DecDms(dec_raw) ==
  LET dec_deg == IF Truthy(dec_raw) THEN parse_sexagesimal(dec_raw) ELSE None
  IN  IF dec_deg # None THEN deg_to_dms(dec_deg) ELSE Str(dec_raw)

\* conv_in before the call reads the properties, conv_out before it returns
NoOut == [hms |-> <<>>, dms |-> <<>>, ra_hms |-> <<>>, dec_dms |-> <<>>]
ConvIdle == conv_in = [ra |-> NoText, dec |-> NoText] /\ conv_out = NoOut

\* One get_observation_data() call on the RA and DEC values conv_in holds:
\* DEC is read only when RA came back non-empty.  hms and dms are _to_hms and
\* _to_dms of the parsed values.
V_Convert ==
  /\ conv_out = NoOut
  /\ LET ra_raw == IF Truthy(conv_in.ra) THEN conv_in.ra ELSE NoText
         dec_raw == IF Truthy(conv_in.ra) THEN conv_in.dec ELSE NoText
     IN  conv_out' = [hms |-> to_hms(parse_sexagesimal(conv_in.ra)),
                      dms |-> to_dms(parse_sexagesimal(conv_in.dec)),
                      ra_hms |-> RaHms(ra_raw),
                      dec_dms |-> DecDms(dec_raw)]
  /\ UNCHANGED conv_in
  /\ UNCHANGED <<mainVars, teleVars, queueVars, remote, downVars, anaVars, fileVars, sseVars>>

\* ------------------------------------------------------------ ShotRecord
NoShot == [id |-> 0, indi_data |-> NoObs, local_path |-> 0, filename |-> 0,
           file_size |-> 0]

\* ShotRecord(...) as main builds it: the Downloader's fields are empty.
ShotRecord(n, obs) == [id |-> n, indi_data |-> obs, local_path |-> 0,
                       filename |-> 0, file_size |-> 0]

\* ------------------------------------------------------------ main()
\* (variant) a shot count of zero or less is a count like any other
Unlimited_Never == FALSE

\* target_shots <= 0: the loop has no end of its own
Unlimited == target_shots <= 0

\* (variant) a failed indi_getprop is not caught and ends the capture loop
OnPropError_Propagates == "finally"

\* _get_prop: except: return None; the iteration goes on to the trigger
OnPropError == "trigger"

\* while (target_shots <= 0) or shot_count < target_shots: shot_count += 1;
\* obs_data = indi.get_observation_data()
M_LoopTest ==
  /\ m_pc = "loop"
  /\ IF Unlimited \/ shot_count < target_shots
       THEN /\ shot_count < MaxShots
            /\ shot_count' = shot_count + 1
            /\ obs_data' = GetObservationData(indi_src)
            /\ queries' = queries + 1
            /\ m_pc' = IF indi_src = NoValue THEN OnPropError ELSE "trigger"
       ELSE /\ m_pc' = "cleanup"
            /\ UNCHANGED <<shot_count, obs_data, queries>>
  /\ UNCHANGED <<indi_src, convVars>>
  /\ UNCHANGED <<target_shots, shutter, interrupted, triggers, pushed>>
  /\ UNCHANGED <<queueVars, remote, downVars, anaVars, fileVars, sseVars>>

\* shutter.on()
M_ShutterOn ==
  /\ m_pc = "trigger"
  /\ shutter' = TRUE
  /\ triggers' = triggers + 1
  /\ m_pc' = "hold"
  /\ UNCHANGED <<target_shots, shot_count, interrupted, pushed>>
  /\ UNCHANGED <<queueVars, remote, downVars, anaVars, fileVars, sseVars>>
  /\ UNCHANGED <<teleVars, convVars>>

\* (variant) the iteration goes on to the cool-down without the put
M_ShutterOff_NoPut ==
  /\ m_pc = "hold"
  /\ shutter' = FALSE
  /\ m_pc' = "cool"
  /\ UNCHANGED <<target_shots, shot_count, interrupted, triggers, pushed>>
  /\ UNCHANGED <<queueVars, remote, downVars, anaVars, fileVars, sseVars>>
  /\ UNCHANGED <<teleVars, convVars>>

\* the hold ends: shutter.off()
M_ShutterOff ==
  /\ m_pc = "hold"
  /\ shutter' = FALSE
  /\ m_pc' = "put"
  /\ UNCHANGED <<target_shots, shot_count, interrupted, triggers, pushed>>
  /\ UNCHANGED <<queueVars, remote, downVars, anaVars, fileVars, sseVars>>
  /\ UNCHANGED <<teleVars, convVars>>

\* download_q.put(ShotRecord(..., obs_data, ...)); obs_data is not read again
\* before the next iteration assigns it
M_Put ==
  /\ m_pc = "put"
  /\ download_q' = Append(download_q, ShotRecord(shot_count, obs_data))
  /\ obs_data' = NoObs
  /\ UNCHANGED <<indi_src, queries, convVars>>
  /\ unfinished_d' = unfinished_d + 1
  /\ pushed' = Append(pushed, shot_count)
  /\ m_pc' = "cool"
  /\ UNCHANGED <<target_shots, shot_count, shutter, interrupted, triggers>>
  /\ UNCHANGED <<analysis_q, unfinished_a, stop_event, remote, downVars>>
  /\ UNCHANGED <<anaVars, fileVars, sseVars>>

\* time.sleep(SHUTTER_OFF_SEC); if target_shots > 0 and shot_count >= target_shots: break
M_Cool ==
  /\ m_pc = "cool"
  /\ m_pc' = IF target_shots > 0 /\ shot_count >= target_shots THEN "cleanup" ELSE "loop"
  /\ UNCHANGED <<target_shots, shot_count, shutter, interrupted, triggers, pushed>>
  /\ UNCHANGED <<queueVars, remote, downVars, anaVars, fileVars, sseVars>>
  /\ UNCHANGED <<teleVars, convVars>>

\* while not (download_q.empty() and analysis_q.empty()): first operand
M_CheckD ==
  /\ m_pc = "cleanup"
  /\ download_q = <<>>
  /\ m_pc' = "cleanup2"
  /\ UNCHANGED <<target_shots, shot_count, shutter, interrupted, triggers, pushed>>
  /\ UNCHANGED <<queueVars, remote, downVars, anaVars, fileVars, sseVars>>
  /\ UNCHANGED <<teleVars, convVars>>

\* ... second operand
M_CheckA ==
  /\ m_pc = "cleanup2"
  /\ m_pc' = IF analysis_q = <<>> THEN "finally" ELSE "cleanup"
  /\ UNCHANGED <<target_shots, shot_count, shutter, interrupted, triggers, pushed>>
  /\ UNCHANGED <<queueVars, remote, downVars, anaVars, fileVars, sseVars>>
  /\ UNCHANGED <<teleVars, convVars>>

InTry == m_pc \in {"loop", "trigger", "hold", "put", "cool", "cleanup", "cleanup2"}

\* except KeyboardInterrupt: anywhere inside the try block
M_Interrupt ==
  /\ InTry
  /\ interrupted' = TRUE
  /\ m_pc' = "finally"
  /\ UNCHANGED <<target_shots, shot_count, shutter, triggers, pushed>>
  /\ UNCHANGED <<queueVars, remote, downVars, anaVars, fileVars, sseVars>>
  /\ UNCHANGED <<teleVars, convVars>>

\* (variant) the finally block leaves the output as it is
FinallyOutput_Kept == shutter

\* finally: shutter.off()
FinallyOutput == FALSE

\* finally: shutter.off()
M_Finally ==
  /\ m_pc = "finally"
  /\ shutter' = FinallyOutput
  /\ m_pc' = "join_d"
  /\ UNCHANGED <<target_shots, shot_count, interrupted, triggers, pushed>>
  /\ UNCHANGED <<queueVars, remote, downVars, anaVars, fileVars, sseVars>>
  /\ UNCHANGED <<teleVars, convVars>>

\* (variant) the stop signal is not held back by the Correlation Queue
M_JoinD_NoWait ==
  /\ m_pc = "join_d"
  /\ m_pc' = "join_a"
  /\ UNCHANGED <<target_shots, shot_count, shutter, interrupted, triggers, pushed>>
  /\ UNCHANGED <<queueVars, remote, downVars, anaVars, fileVars, sseVars>>
  /\ UNCHANGED <<teleVars, convVars>>

\* download_q.join()
M_JoinD ==
  /\ m_pc = "join_d"
  /\ unfinished_d = 0
  /\ m_pc' = "join_a"
  /\ UNCHANGED <<target_shots, shot_count, shutter, interrupted, triggers, pushed>>
  /\ UNCHANGED <<queueVars, remote, downVars, anaVars, fileVars, sseVars>>
  /\ UNCHANGED <<teleVars, convVars>>

\* analysis_q.join()
M_JoinA ==
  /\ m_pc = "join_a"
  /\ unfinished_a = 0
  /\ m_pc' = "set_stop"
  /\ UNCHANGED <<target_shots, shot_count, shutter, interrupted, triggers, pushed>>
  /\ UNCHANGED <<queueVars, remote, downVars, anaVars, fileVars, sseVars>>
  /\ UNCHANGED <<teleVars, convVars>>

\* stop_event.set()
M_SetStop ==
  /\ m_pc = "set_stop"
  /\ stop_event' = TRUE
  /\ m_pc' = "done"
  /\ UNCHANGED <<target_shots, shot_count, shutter, interrupted, triggers, pushed>>
  /\ UNCHANGED <<download_q, unfinished_d, analysis_q, unfinished_a, remote, downVars>>
  /\ UNCHANGED <<anaVars, fileVars, sseVars>>
  /\ UNCHANGED <<teleVars, convVars>>

\* ------------------------------------------------------------ the remote store
\* The camera (or a manual release) adds a file to the session directory; a
\* listing shows the files in the order they were added.
E_NewFile ==
  /\ Len(remote) < MaxFiles
  /\ \E e \in Exts : remote' = Append(remote, e)
  /\ UNCHANGED <<mainVars, queueVars, downVars, anaVars, fileVars, sseVars>>
  /\ UNCHANGED <<teleVars, convVars>>

\* ------------------------------------------------------------ downloader_worker
\* (variant) the loop test without the stop signal
D_Running_QueueOnly == download_q # <<>>

\* while not (stop_event.is_set() and download_queue.empty())
D_Running == ~(stop_event /\ download_q = <<>>)

D_Exit ==
  /\ d_pc = "loop"
  /\ ~D_Running
  /\ d_pc' = "exit"
  /\ UNCHANGED <<last_target, known_files, listing, idx, shot_data, current_fsize,
                 poll_i, fails_left, last_obs, obs_stable, pairings, forwarded, cold>>
  /\ UNCHANGED <<mainVars, queueVars, remote, anaVars, fileVars, sseVars>>
  /\ UNCHANGED <<teleVars, convVars>>

\* Step 1: list /DCIM and take the last directory; a failed request or an
\* empty list sleeps and starts the loop again.
D_ListDirs ==
  /\ d_pc = "loop"
  /\ D_Running
  /\ \E ok \in BOOLEAN :
       IF ok
         THEN /\ last_target' = Target
              /\ d_pc' = "files"
         ELSE UNCHANGED <<last_target, d_pc>>
  /\ UNCHANGED <<known_files, listing, idx, shot_data, current_fsize,
                 poll_i, fails_left, last_obs, obs_stable, pairings, forwarded, cold>>
  /\ UNCHANGED <<mainVars, queueVars, remote, anaVars, fileVars, sseVars>>
  /\ UNCHANGED <<teleVars, convVars>>

\* (variant) the listing error is not caught and ends the thread
OnListError_Propagates == "exit"

\* except Exception: pass, then the sleep at the end of the loop body
OnListError == "loop"

\* Step 2: list the files of the target directory; the for loop walks the text
\* of this one response.
D_ListFiles ==
  /\ d_pc = "files"
  /\ \E ok \in BOOLEAN :
       IF ok
         THEN /\ listing' = Len(remote)
              /\ idx' = 1
              /\ d_pc' = "scan"
              /\ cold' = IF cold = "before" THEN "first" ELSE "after"
         ELSE /\ d_pc' = OnListError
              /\ UNCHANGED <<listing, idx, cold>>
  /\ UNCHANGED <<last_target, known_files, shot_data, current_fsize,
                 poll_i, fails_left, last_obs, obs_stable, pairings, forwarded>>
  /\ UNCHANGED <<mainVars, queueVars, remote, anaVars, fileVars, sseVars>>
  /\ UNCHANGED <<teleVars, convVars>>

\* (variant) the file found with an empty queue is left unmarked
Ignore_Unmarked(known, f) == known

\* else: known_files.add(full_remote): a file found while the queue is empty
\* is ignored from now on
Ignore(known, f) == known \cup {f}

\* if not known_files and last_target == "": the startup condition
ColdStart == known_files = {} /\ last_target = NoTarget

\* One line of the listing: filter, startup condition, pairing or skip.
D_Scan ==
  /\ d_pc = "scan"
  /\ cold' = IF idx > listing THEN "after" ELSE cold
  /\ IF idx > listing
       THEN /\ d_pc' = "loop"
            /\ UNCHANGED <<known_files, idx, shot_data, current_fsize, poll_i,
                           last_obs, obs_stable, pairings, download_q>>
       ELSE IF remote[idx] \in AcceptedExt /\ idx \notin known_files
         THEN IF ColdStart
           THEN /\ known_files' = known_files \cup {idx}
                /\ idx' = idx + 1
                /\ UNCHANGED <<d_pc, shot_data, current_fsize, poll_i,
                               last_obs, obs_stable, pairings, download_q>>
           ELSE IF download_q # <<>>
             THEN /\ shot_data' = Head(download_q)
                  /\ download_q' = Tail(download_q)
                  /\ \E fsize \in Sizes :
                       /\ current_fsize' = fsize
                       /\ last_obs' = fsize
                  /\ obs_stable' = FALSE
                  /\ poll_i' = 0
                  /\ pairings' = Append(pairings, <<Head(download_q).id, idx>>)
                  /\ d_pc' = "poll"
                  /\ UNCHANGED <<known_files, idx>>
             ELSE /\ known_files' = Ignore(known_files, idx)
                  /\ idx' = idx + 1
                  /\ UNCHANGED <<d_pc, shot_data, current_fsize, poll_i,
                                 last_obs, obs_stable, pairings, download_q>>
         ELSE /\ idx' = idx + 1
              /\ UNCHANGED <<d_pc, known_files, shot_data, current_fsize, poll_i,
                             last_obs, obs_stable, pairings, download_q>>
  /\ UNCHANGED <<last_target, listing, fails_left, forwarded>>
  /\ UNCHANGED <<mainVars, unfinished_d, analysis_q, unfinished_a, stop_event, remote>>
  /\ UNCHANGED <<anaVars, fileVars, sseVars>>
  /\ UNCHANGED <<teleVars, convVars>>

\* (variant) the size test without new_size > 0
Stable_NoZeroCheck(new_size, cur) == new_size = cur

\* if new_size > 0 and new_size == current_fsize: break
Stable(new_size, cur) == new_size > 0 /\ new_size = cur

\* (variant) the polling loop without its bound
Exhausted_Never(n) == FALSE

\* for _ in range(25): the loop is over after n iterations
Exhausted(n) == n >= PollBudget

\* Step 4: one iteration of for _ in range(25), against a store whose size
\* request succeeds or not (oks) and reports one of sizes; a failed request is
\* except: continue.
D_PollWith(oks, sizes) ==
  /\ d_pc = "poll"
  /\ \E ok \in oks, new_size \in sizes :
       IF ~ok
         THEN /\ poll_i' = poll_i + 1
              /\ d_pc' = IF Exhausted(poll_i + 1) THEN "fetch" ELSE "poll"
              /\ UNCHANGED <<current_fsize, last_obs, obs_stable>>
         ELSE /\ obs_stable' = (new_size > 0 /\ new_size = last_obs)
              /\ last_obs' = new_size
              /\ IF Stable(new_size, current_fsize)
                   THEN /\ d_pc' = "fetch"
                        /\ UNCHANGED <<current_fsize, poll_i>>
                   ELSE /\ current_fsize' = new_size
                        /\ poll_i' = poll_i + 1
                        /\ d_pc' = IF Exhausted(poll_i + 1) THEN "fetch" ELSE "poll"
  /\ UNCHANGED <<last_target, known_files, listing, idx, shot_data, fails_left,
                 pairings, forwarded, cold>>
  /\ UNCHANGED <<mainVars, queueVars, remote, anaVars, fileVars, sseVars>>
  /\ UNCHANGED <<teleVars, convVars>>

\* the request may fail or report any size
D_Poll == D_PollWith(BOOLEAN, Sizes)

\* Step 6: the Downloader's fields of the ShotRecord
Completed(rec, f, size) ==
  [rec EXCEPT !.local_path = f, !.filename = f, !.file_size = size]

\* except Exception: download_queue.put(shot_data)
Requeue(q, rec) == Append(q, rec)

\* Steps 5 and 6: fetch and write the file, then forward the record; or the
\* except branch.
D_Fetch ==
  /\ d_pc = "fetch"
  /\ \E ok \in BOOLEAN :
       IF ok
         THEN /\ analysis_q' = Append(analysis_q, Completed(shot_data, idx, current_fsize))
              /\ unfinished_a' = unfinished_a + 1
              /\ unfinished_d' = unfinished_d - 1
              /\ known_files' = known_files \cup {idx}
              /\ forwarded' = Append(forwarded,
                    [id |-> shot_data.id, file |-> idx,
                     local_path |-> Completed(shot_data, idx, current_fsize).local_path,
                     stable |-> obs_stable, exhausted |-> (poll_i >= PollBudget)])
              /\ UNCHANGED <<download_q, fails_left>>
         ELSE /\ fails_left > 0
              /\ download_q' = Requeue(download_q, shot_data)
              /\ unfinished_d' = unfinished_d + 1
              /\ fails_left' = fails_left - 1
              /\ UNCHANGED <<analysis_q, unfinished_a, known_files, forwarded>>
  /\ shot_data' = NoShot
  /\ current_fsize' = 0
  /\ poll_i' = 0
  /\ last_obs' = 0
  /\ obs_stable' = FALSE
  /\ idx' = idx + 1
  /\ d_pc' = "scan"
  /\ UNCHANGED <<last_target, listing, pairings, cold>>
  /\ UNCHANGED <<mainVars, stop_event, remote, anaVars, fileVars, sseVars>>
  /\ UNCHANGED <<teleVars, convVars>>

\* ------------------------------------------------------------ the log files
\* A file is absent, empty (just truncated by open(..., 'w')), torn (bytes of
\* two writers mixed: json.load raises) or holds JSON: one object ("dict", as
\* json.dump(json_data) writes it) or an array of objects ("list").
Absent == [kind |-> "absent", entries |-> <<>>]
Empty == [kind |-> "empty", entries |-> <<>>]
Torn == [kind |-> "torn", entries |-> <<>>]
JDict(e) == [kind |-> "dict", entries |-> <<e>>]
JList(es) == [kind |-> "list", entries |-> es]

\* json_data["record"]: file.name, the rest of the record, the analysis block
Pending == "pending"
\* (variant) the Analyzer asks the INDI server again
IndiOf_Requery(rec, src) == GetObservationData(src)

\* indi = shot.indi_data
IndiOf(rec, src) == rec.indi_data

JsonData(rec, decoded) ==
  [name |-> rec.filename, rec |-> rec.id, indi |-> IndiOf(rec, indi_src),
   decoded |-> decoded, analysis |-> Pending]

\* row[...] of shutter_log.csv: File_Name and Solve_Status
CsvRow(rec) == [name |-> rec.filename, status |-> Pending]

\* The bytes a writer leaves when it closes a file it truncated on open: its
\* own text if nobody wrote in between, else its text over the other's, which
\* is whole only if the other text was not longer.
Closed(file, text) == IF file = Empty THEN {text} ELSE {text, Torn}

\* A write that is closed (or flushed) without os.fsync is in the page cache
\* only; f.flush(); os.fsync(f.fileno()) forces the file to stable storage.
Written(files, f) == files \cup {f}
Fsync(files, f) == files \ {f}

\* The kernel writes the cached pages of a file back at a time of its own.
E_WriteBack ==
  /\ \E f \in unsynced : unsynced' = unsynced \ {f}
  /\ UNCHANGED <<csv_head, csv, pointer, history>>
  /\ UNCHANGED <<mainVars, queueVars, remote, downVars, anaVars, sseVars>>
  /\ UNCHANGED <<teleVars, convVars>>

\* ------------------------------------------------------------ analyzer_worker
\* ex as the decode loop leaves it: no field set ("none", the value of line
\* 106), some fields set before a conversion threw ("partial"), or every field
\* the tags hold ("full").
NoFields == "none"

\* if not os.path.exists(csv_file): write the version comment and the header
A_Start ==
  /\ a_pc = "start"
  /\ csv_head' = TRUE
  /\ unsynced' = Written(unsynced, "csv")
  /\ a_pc' = "loop"
  /\ UNCHANGED <<shot, attempt, ex, h, csv, pointer, history>>
  /\ UNCHANGED <<mainVars, queueVars, remote, downVars, sseVars>>
  /\ UNCHANGED <<teleVars, convVars>>

\* A write to local storage raises (disk full, directory gone): nothing in
\* analyzer_worker catches it and the thread ends.
Crashed == "crashed"

A_Exit ==
  /\ a_pc = "loop"
  /\ stop_event /\ analysis_q = <<>>
  /\ a_pc' = "exit"
  /\ UNCHANGED <<shot, attempt, ex, h>>
  /\ UNCHANGED <<mainVars, queueVars, remote, downVars, fileVars, sseVars>>
  /\ UNCHANGED <<teleVars, convVars>>

\* shot = analysis_queue.get(timeout=1)
A_Get ==
  /\ a_pc = "loop"
  /\ analysis_q # <<>>
  /\ shot' = Head(analysis_q)
  /\ analysis_q' = Tail(analysis_q)
  /\ attempt' = 0
  /\ ex' = NoFields
  /\ a_pc' = "decode"
  /\ UNCHANGED h
  /\ UNCHANGED <<mainVars, download_q, unfinished_d, unfinished_a, stop_event>>
  /\ UNCHANGED <<remote, downVars, fileVars, sseVars>>
  /\ UNCHANGED <<teleVars, convVars>>

Outcomes == {"decoder_throws", "field_throws", "ok"}

\* One pass through the try body: exifread.process_file throws before any
\* assignment; a conversion (int(...), float(...)) throws after the earlier
\* assignments to ex; or the body runs to its break.
Decoded(fields, outcome) ==
  IF outcome = "ok" THEN "full"
  ELSE IF outcome = "field_throws" /\ fields = NoFields THEN "partial"
  ELSE fields

\* (variant) the loop without its break
DecodeEnds_NoBreak(outcome, n) == n >= DecodeBudget

\* (variant) the loop without its bound
DecodeEnds_NoBudget(outcome, n) == outcome = "ok"

\* the loop ends at the break or when range(5) is used up
DecodeEnds(outcome, n) == outcome = "ok" \/ n >= DecodeBudget

\* for attempt in range(5): one decode attempt, which throws or breaks
A_Decode ==
  /\ a_pc = "decode"
  /\ \E outcome \in Outcomes :
       /\ attempt' = attempt + 1
       /\ ex' = Decoded(ex, outcome)
       /\ a_pc' = IF DecodeEnds(outcome, attempt + 1) THEN "csv" ELSE "decode"
  /\ UNCHANGED <<shot, h>>
  /\ UNCHANGED <<mainVars, queueVars, remote, downVars, fileVars, sseVars>>
  /\ UNCHANGED <<teleVars, convVars>>

\* with open(csv_file, 'a'): csv.writer(f).writerow(row); f.flush(); os.fsync
\* (attempt is not read after the decode loop: it is cleared here)
A_Csv ==
  /\ a_pc = "csv"
  /\ \E ok \in BOOLEAN :
       IF ok
         THEN /\ csv' = Append(csv, CsvRow(shot))
              /\ unsynced' = Fsync(Written(unsynced, "csv"), "csv")
              /\ a_pc' = "ptr_open"
         ELSE /\ a_pc' = Crashed
              /\ UNCHANGED <<csv, unsynced>>
  /\ attempt' = 0
  /\ UNCHANGED <<shot, ex, h, csv_head, pointer, history>>
  /\ UNCHANGED <<mainVars, queueVars, remote, downVars, sseVars>>
  /\ UNCHANGED <<teleVars, convVars>>

\* open(latest_json_file, 'w')
A_PtrOpen ==
  /\ a_pc = "ptr_open"
  /\ \E ok \in BOOLEAN :
       IF ok
         THEN /\ pointer' = Empty
              /\ unsynced' = Written(unsynced, "pointer")
              /\ a_pc' = "ptr_dump"
         ELSE /\ a_pc' = Crashed
              /\ UNCHANGED <<pointer, unsynced>>
  /\ UNCHANGED <<shot, attempt, ex, h, csv_head, csv, history>>
  /\ UNCHANGED <<mainVars, queueVars, remote, downVars, sseVars>>
  /\ UNCHANGED <<teleVars, convVars>>

\* what the Analyzer writes to latest_shot.json: json.dump(json_data, f)
LatestText(json_data) == JDict(json_data)

\* json.dump(json_data, f) and the close of the with block
A_PtrDump ==
  /\ a_pc = "ptr_dump"
  /\ UNCHANGED csv_head
  /\ pointer' \in Closed(pointer, LatestText(JsonData(shot, ex)))
  /\ unsynced' = Written(unsynced, "pointer")
  /\ a_pc' = "hist_read"
  /\ UNCHANGED <<shot, attempt, ex, h, csv, history>>
  /\ UNCHANGED <<mainVars, queueVars, remote, downVars, sseVars>>
  /\ UNCHANGED <<teleVars, convVars>>

\* (variant) the archive is not read back before the rewrite
LoadHistory_Fresh(file) == <<>>

\* h = [] ; if exists: try: h = json.load(f) except: h = []
LoadHistory(file) == IF file.kind = "list" THEN file.entries ELSE <<>>

A_HistRead ==
  /\ a_pc = "hist_read"
  /\ h' = LoadHistory(history)
  /\ a_pc' = "hist_open"
  /\ UNCHANGED <<shot, attempt, ex>>
  /\ UNCHANGED <<mainVars, queueVars, remote, downVars, fileVars, sseVars>>
  /\ UNCHANGED <<teleVars, convVars>>

\* h.append(json_data); open(history_json_file, 'w')
A_HistOpen ==
  /\ a_pc = "hist_open"
  /\ \E ok \in BOOLEAN :
       IF ok
         THEN /\ history' = Empty
              /\ unsynced' = Written(unsynced, "history")
              /\ a_pc' = "hist_dump"
         ELSE /\ a_pc' = Crashed
              /\ UNCHANGED <<history, unsynced>>
  /\ UNCHANGED <<shot, attempt, ex, h, csv_head, csv, pointer>>
  /\ UNCHANGED <<mainVars, queueVars, remote, downVars, sseVars>>
  /\ UNCHANGED <<teleVars, convVars>>

\* json.dump(h, f) and the close of the with block
A_HistDump ==
  /\ a_pc = "hist_dump"
  /\ UNCHANGED csv_head
  /\ history' \in Closed(history, JList(Append(h, JsonData(shot, ex))))
  /\ unsynced' = Written(unsynced, "history")
  /\ h' = <<>>
  /\ a_pc' = "task_done"
  /\ UNCHANGED <<shot, attempt, ex, csv, pointer>>
  /\ UNCHANGED <<mainVars, queueVars, remote, downVars, sseVars>>
  /\ UNCHANGED <<teleVars, convVars>>

\* analysis_queue.task_done()
A_TaskDone ==
  /\ a_pc = "task_done"
  /\ unfinished_a' = unfinished_a - 1
  /\ shot' = NoShot
  /\ attempt' = 0
  /\ ex' = NoFields
  /\ a_pc' = "loop"
  /\ UNCHANGED h
  /\ UNCHANGED <<mainVars, download_q, unfinished_d, analysis_q, stop_event>>
  /\ UNCHANGED <<remote, downVars, fileVars, sseVars>>
  /\ UNCHANGED <<teleVars, convVars>>

\* ------------------------------------------------------------ SkySolverEngine
\* A file name n stands for the text NameText(n): the local name the
\* Downloader gives the n-th remote file, f"{date_prefix}_{fname}", and for a
\* name made by CopyOf the name of a copy somebody kept of it.
DatePrefix == <<"2", "6", "0", "2", "1", "5">>
Fname(n) == <<"I", "M", "G", "P">> \o Fmt02(n) \o <<".", "D", "N", "G">>
NewFname(n) == DatePrefix \o <<"_">> \o Fname(n)
CopyOf(n) == n + 10
NameText(n) ==
  IF n > 10 THEN <<"s", "t", "a", "c", "k", "_">> \o NewFname(n - 10) ELSE NewFname(n)

\* a in b, for two str
IsInfix(a, b) == \E i \in 0..(Len(b) - Len(a)) : SubSeq(b, i + 1, i + Len(a)) = a

\* (variant) every entry is taken for the target's
NameIn_Any(name, target_filename) == TRUE

\* entry["record"]["file"]["name"] in target_filename
NameIn(name, target_filename) == IsInfix(NameText(name), NameText(target_filename))

\* _apply_res_to_dict: the analysis block is replaced, nothing else
SolveStatus(res) == IF res THEN "success" ELSE "failed"
\* (variant) the result is not written into the entry
ApplyRes_Noop(entry, res) == entry

ApplyRes(entry, res) == [entry EXCEPT !.analysis = SolveStatus(res)]

\* data[0]["record"]["file"]["name"]: needs a JSON array with a head entry
HasHead(file) == file.kind = "list" /\ Len(file.entries) >= 1
HeadName(file) == file.entries[1].name
\* data[0]["record"]["mount"].get("ra_deg")
HeadHint(file) == file.entries[1].indi.ra_deg

\* 1. the fingerprint read of process_latest
S_Start ==
  /\ s_pc = "idle"
  /\ s_runs < MaxRuns
  /\ s_runs' = s_runs + 1
  /\ IF pointer = Absent
       THEN /\ s_outcome' = "not_found"
            /\ UNCHANGED <<s_pc, s_target, s_hint>>
       ELSE IF HasHead(pointer)
         THEN /\ s_target' = HeadName(pointer)
              /\ s_hint' = HeadHint(pointer)
              /\ s_pc' = "solve"
              /\ s_outcome' = "running"
         ELSE /\ s_outcome' = "fingerprint_error"
              /\ UNCHANGED <<s_pc, s_target, s_hint>>
  /\ UNCHANGED <<s_res, s_data, s_hist, s_rows, sseFlags, s_passes>>
  /\ UNCHANGED <<mainVars, queueVars, remote, downVars, anaVars, fileVars>>
  /\ UNCHANGED <<teleVars, convVars>>

\* solve(): the passes in their order.  ok[p] tells whether solve-field finds
\* the field with the settings of pass p, prepared whether prepare_image gave
\* an input file.
Passes == 1..6
HintedPasses == <<1, 2, 3>>
AllSkyPasses == <<4, 5, 6>>

\* (variant) every pass of the group is tried
TryPasses_All(ps, ok) == [i \in 1..Len(ps) |-> <<ps[i], ok[ps[i]]>>]

\* the passes of one group: each next one only if the one before failed
\* (if not res["success"]: res = try_solve(...))
TryPasses(ps, ok) ==
  LET hits == {i \in 1..Len(ps) : ok[ps[i]]}
      last == IF hits = {} THEN Len(ps) ELSE CHOOSE i \in hits : \A j \in hits : i <= j
  IN  [i \in 1..last |-> <<ps[i], ok[ps[i]]>>]

Succeeded(calls) == calls # <<>> /\ calls[Len(calls)][2]

Solve(ra_hint, all_sky, prepared, ok) ==
  IF (ra_hint = NoValue /\ ~all_sky) \/ ~prepared
    THEN [success |-> FALSE, calls |-> <<>>]
    ELSE LET hinted == IF ra_hint # NoValue THEN TryPasses(HintedPasses, ok) ELSE <<>>
             blind == IF ~Succeeded(hinted) /\ all_sky
                        THEN TryPasses(AllSkyPasses, ok) ELSE <<>>
         IN  [success |-> Succeeded(hinted \o blind), calls |-> hinted \o blind]

\* res = self.solve(target_path, ra_hint, dec_hint)
SolveStep(from, to) ==
  /\ s_pc = from
  /\ \E prepared \in BOOLEAN, ok \in [Passes -> BOOLEAN] :
       LET res == Solve(s_hint, all_sky_enabled, prepared, ok)
       IN  s_res' = res.success /\ s_passes' = res.calls
  /\ s_hint' = NoValue
  /\ s_pc' = to
  /\ UNCHANGED <<s_target, s_data, s_hist, s_rows, s_runs, s_outcome, sseFlags>>
  /\ UNCHANGED <<mainVars, queueVars, remote, downVars, anaVars, fileVars>>
  /\ UNCHANGED <<teleVars, convVars>>

\* 2. of process_latest
S_Solve == SolveStep("solve", "check")

\* the head entry with the result applied, the rest of the array as loaded
Reconciled(entries, res) == <<ApplyRes(entries[1], res)>> \o Tail(entries)

\* if current_data[0]["record"]["file"]["name"] == target_filename
Fingerprint(file, target_filename) == HeadName(file) = target_filename

\* 3. open r+, json.load and the comparison; a file that is no array with a
\* head entry raises into the outer except, which skips update_logs too.
S_Check ==
  /\ s_pc = "check"
  /\ IF ~HasHead(pointer)
       THEN /\ s_outcome' = "update_failed"
            /\ s_pc' = "idle"
            /\ UNCHANGED s_data
       ELSE IF Fingerprint(pointer, s_target)
         THEN /\ s_data' = Reconciled(pointer.entries, s_res)
              /\ s_outcome' = "match"
              /\ s_pc' = "ptr_write"
         ELSE /\ s_outcome' = "mismatch"
              /\ s_pc' = "logs"
              /\ UNCHANGED s_data
  /\ s_passes' = <<>>
  /\ UNCHANGED <<s_target, s_res, s_hist, s_rows, s_runs, sseFlags, s_hint>>
  /\ UNCHANGED <<mainVars, queueVars, remote, downVars, anaVars, fileVars>>
  /\ UNCHANGED <<teleVars, convVars>>

\* f.seek(0); json.dump(current_data, f); f.truncate()
S_PtrWrite ==
  /\ s_pc = "ptr_write"
  /\ UNCHANGED csv_head
  /\ pointer' = JList(s_data)
  /\ unsynced' = Written(unsynced, "pointer")
  /\ s_data' = <<>>
  /\ s_pc' = "logs"
  /\ UNCHANGED <<sseFlags, s_hint, s_passes>>
  /\ UNCHANGED <<s_target, s_res, s_hist, s_rows, s_runs, s_outcome>>
  /\ UNCHANGED <<csv, history>>
  /\ UNCHANGED <<mainVars, queueVars, remote, downVars, anaVars>>
  /\ UNCHANGED <<teleVars, convVars>>

\* for entry in data: if name in target_filename: _apply_res_to_dict(entry, res)
UpdateEntries(entries, target_filename, res) ==
  [i \in 1..Len(entries) |->
     IF NameIn(entries[i].name, target_filename)
       THEN ApplyRes(entries[i], res) ELSE entries[i]]

Matches(entries, target_filename) ==
  \E i \in 1..Len(entries) : NameIn(entries[i].name, target_filename)

\* update_logs -> _update_json_file: open r+ and json.load; nothing is written
\* if the file is absent, does not parse, or holds no matching entry.
S_LogsJson ==
  /\ s_pc = "logs"
  /\ IF history.kind = "list" /\ Matches(history.entries, s_target)
       THEN /\ s_hist' = UpdateEntries(history.entries, s_target, s_res)
            /\ s_pc' = "hist_write"
       ELSE /\ s_pc' = "csv_read"
            /\ UNCHANGED s_hist
  /\ s_passes' = <<>>
  /\ UNCHANGED <<s_target, s_res, s_data, s_rows, s_runs, s_outcome, sseFlags, s_hint>>
  /\ UNCHANGED <<mainVars, queueVars, remote, downVars, anaVars, fileVars>>
  /\ UNCHANGED <<teleVars, convVars>>

\* f.seek(0); json.dump(data, f); f.truncate()
S_HistWrite ==
  /\ s_pc = "hist_write"
  /\ UNCHANGED csv_head
  /\ history' = JList(s_hist)
  /\ unsynced' = Written(unsynced, "history")
  /\ s_hist' = <<>>
  /\ s_pc' = "csv_read"
  /\ UNCHANGED <<sseFlags, s_hint, s_passes>>
  /\ UNCHANGED <<s_target, s_res, s_data, s_rows, s_runs, s_outcome>>
  /\ UNCHANGED <<csv, pointer>>
  /\ UNCHANGED <<mainVars, queueVars, remote, downVars, anaVars>>
  /\ UNCHANGED <<teleVars, convVars>>

\* _update_csv_file: the rows whose File_Name matches get the solve columns
UpdateRows(rows, target_filename, res) ==
  [i \in 1..Len(rows) |->
     IF rows[i].name # 0 /\ NameIn(rows[i].name, target_filename)
       THEN [rows[i] EXCEPT !.status = SolveStatus(res)] ELSE rows[i]]

\* _update_csv_file: read the rows
S_CsvRead ==
  /\ s_pc = "csv_read"
  /\ s_rows' = UpdateRows(csv, s_target, s_res)
  /\ s_pc' = "csv_write"
  /\ UNCHANGED <<sseFlags, s_hint, s_passes>>
  /\ UNCHANGED <<s_target, s_res, s_data, s_hist, s_runs, s_outcome>>
  /\ UNCHANGED <<mainVars, queueVars, remote, downVars, anaVars, fileVars>>
  /\ UNCHANGED <<teleVars, convVars>>

\* _update_csv_file: open(filepath, 'w') and write every row back
S_CsvWrite ==
  /\ s_pc = "csv_write"
  /\ UNCHANGED csv_head
  /\ csv' = s_rows
  /\ unsynced' = Written(unsynced, "csv")
  /\ s_rows' = <<>>
  /\ s_pc' = "idle"
  /\ UNCHANGED <<sseFlags, s_hint, s_passes>>
  /\ UNCHANGED <<s_target, s_res, s_data, s_hist, s_runs, s_outcome>>
  /\ UNCHANGED <<pointer, history>>
  /\ UNCHANGED <<mainVars, queueVars, remote, downVars, anaVars>>
  /\ UNCHANGED <<teleVars, convVars>>

\* ---- process_target
\* the file names `SSE.py select <target>` may be given
Targets == (1..(MaxFiles + 1)) \cup {CopyOf(n) : n \in 1..MaxFiles}

\* for r in json.load(f): if r["record"]["file"]["name"] in target_name: ...; break
FirstMatch(entries, target_name) ==
  CHOOSE i \in 1..Len(entries) :
    /\ NameIn(entries[i].name, target_name)
    /\ \A j \in 1..(i - 1) : ~NameIn(entries[j].name, target_name)

\* (variant) a solved capture is solved again
SkipSolved_Never(is_solved, force) == FALSE

\* if is_solved and not self.force_mode: return
SkipSolved(is_solved, force) == is_solved /\ ~force

\* process_target up to the solve: the archive is read for the hint and the
\* solve status of the first matching entry; an archive that is absent or
\* does not load as an array of entries gives no hint (except: pass).
T_Start ==
  /\ s_pc = "idle"
  /\ s_runs < MaxRuns
  /\ s_runs' = s_runs + 1
  /\ \E target_name \in Targets :
       LET known == history.kind = "list" /\ Matches(history.entries, target_name)
           r == history.entries[FirstMatch(history.entries, target_name)]
           is_solved == known /\ r.analysis = "success"
       IN  /\ s_target' = target_name
           /\ IF SkipSolved(is_solved, force_mode)
                THEN /\ s_outcome' = "skipped"
                     /\ UNCHANGED <<s_pc, s_hint>>
                ELSE /\ s_outcome' = "running"
                     /\ s_pc' = "solve_target"
                     /\ s_hint' = IF known THEN r.indi.ra_deg ELSE NoValue
  /\ UNCHANGED <<s_res, s_data, s_hist, s_rows, sseFlags, s_passes>>
  /\ UNCHANGED <<mainVars, queueVars, remote, downVars, anaVars, fileVars>>
  /\ UNCHANGED <<teleVars, convVars>>

\* res = self.solve(...) of process_target; update_logs follows
T_Solve == SolveStep("solve_target", "logs")

\* The state after main has started both threads, with budget fetch failures
\* to come.
\* counts: the shot counts the command line may give
Threads(budget, counts) ==
  /\ m_pc = "loop"
  /\ target_shots \in counts
  /\ shot_count = 0
  /\ shutter = FALSE
  /\ interrupted = FALSE
  /\ triggers = 0
  /\ pushed = <<>>
  /\ download_q = <<>>
  /\ unfinished_d = 0
  /\ analysis_q = <<>>
  /\ unfinished_a = 0
  /\ stop_event = FALSE
  /\ remote \in {<<>>, <<"dng">>}
  /\ d_pc = "loop"
  /\ last_target = NoTarget
  /\ known_files = {}
  /\ listing = 0
  /\ idx = 0
  /\ shot_data = NoShot
  /\ current_fsize = 0
  /\ poll_i = 0
  /\ fails_left = budget
  /\ last_obs = 0
  /\ obs_stable = FALSE
  /\ pairings = <<>>
  /\ forwarded = <<>>
  /\ cold = "before"
  /\ a_pc = "start"
  /\ shot = NoShot
  /\ attempt = 0
  /\ ex = NoFields
  /\ h = <<>>

\* no log file yet
FreshLogs ==
  /\ csv_head = FALSE
  /\ csv = <<>>
  /\ pointer = Absent
  /\ history = Absent
  /\ unsynced = {}

\* no annotator run yet
SseIdle ==
  /\ s_pc = "idle"
  /\ s_hint = NoValue
  /\ s_passes = <<>>
  /\ s_target = 0
  /\ s_res = FALSE
  /\ s_data = <<>>
  /\ s_hist = <<>>
  /\ s_rows = <<>>
  /\ s_runs = 0
  /\ s_outcome = "none"

\* SSE.py run without --force and without --allsky
PlainFlags == force_mode = FALSE /\ all_sky_enabled = FALSE

StartWith(budget, counts) ==
  Threads(budget, counts) /\ FreshLogs /\ SseIdle /\ PlainFlags

\* The INDI server as the capture loop finds it: it answers, and its reading
\* does not change during the run.
IndiSteady ==
  /\ indi_src = MaxTele
  /\ obs_data = NoObs
  /\ queries = 0

Start(budget) == StartWith(budget, 0..MaxShots)

Init == Start(MaxFetchFail) /\ IndiSteady /\ ConvIdle

Next ==
  \/ M_LoopTest \/ M_ShutterOn \/ M_ShutterOff \/ M_Put \/ M_Cool
  \/ M_CheckD \/ M_CheckA \/ M_Interrupt \/ M_Finally
  \/ M_JoinD \/ M_JoinA \/ M_SetStop
  \/ E_NewFile
  \/ D_Exit \/ D_ListDirs \/ D_ListFiles \/ D_Scan \/ D_Poll \/ D_Fetch
  \/ A_Start \/ A_Exit \/ A_Get \/ A_Decode \/ A_Csv \/ A_PtrOpen \/ A_PtrDump
  \/ A_HistRead \/ A_HistOpen \/ A_HistDump \/ A_TaskDone

Spec == Init /\ [][Next]_vars

\* ------------------------------------------------------------ capture loop and downloader
\* The capture loop and the Downloader alone, with a remote store that fails
\* more fetches: what is in the Analysis Queue stays there.
InitDown == Start(MaxRetryFail) /\ IndiSteady /\ ConvIdle

NextDown ==
  \/ M_LoopTest \/ M_ShutterOn \/ M_ShutterOff \/ M_Put \/ M_Cool
  \/ M_CheckD \/ M_CheckA \/ M_Interrupt \/ M_Finally \/ M_JoinD
  \/ E_NewFile
  \/ D_ListDirs \/ D_ListFiles \/ D_Scan \/ D_Poll \/ D_Fetch

SpecDown == InitDown /\ [][NextDown]_vars

\* ------------------------------------------------------------ analyzer and annotator
\* The log directory as an earlier session left it: capture PriorName archived
\* in the format process_latest reads (a JSON array).
PriorNames == <<1>>
PriorName == PriorNames[1]
PriorEntry == [name |-> PriorName, rec |-> 0, indi |-> GetObservationData(MaxTele),
               decoded |-> "full", analysis |-> Pending]

\* The records the Downloader has forwarded and the Analyzer has not taken yet.
Feed == [i \in 1..MaxFeed |->
          Completed(ShotRecord(i, GetObservationData(MaxTele)), PriorName + i, 1)]

InitRecon ==
  /\ m_pc = "cleanup"
  /\ target_shots = MaxFeed
  /\ shot_count = MaxFeed
  /\ shutter = FALSE
  /\ interrupted = FALSE
  /\ triggers = MaxFeed
  /\ pushed = [i \in 1..MaxFeed |-> i]
  /\ indi_src = MaxTele
  /\ obs_data = NoObs
  /\ queries = MaxFeed
  /\ ConvIdle
  /\ download_q = <<>>
  /\ unfinished_d = 0
  /\ analysis_q = Feed
  /\ unfinished_a = MaxFeed
  /\ stop_event = FALSE
  /\ remote = [i \in 1..(MaxFeed + 1) |-> "dng"]
  /\ d_pc = "loop"
  /\ last_target = Target
  /\ known_files = 1..(MaxFeed + 1)
  /\ listing = 0
  /\ idx = 0
  /\ shot_data = NoShot
  /\ current_fsize = 0
  /\ poll_i = 0
  /\ fails_left = MaxFetchFail
  /\ last_obs = 0
  /\ obs_stable = FALSE
  /\ pairings = [i \in 1..MaxFeed |-> <<i, PriorName + i>>]
  /\ forwarded = [i \in 1..MaxFeed |->
                    [id |-> i, file |-> PriorName + i, local_path |-> PriorName + i,
                     stable |-> TRUE, exhausted |-> FALSE]]
  /\ cold = "after"
  /\ a_pc = "loop"
  /\ shot = NoShot
  /\ attempt = 0
  /\ ex = NoFields
  /\ h = <<>>
  /\ csv_head = TRUE
  /\ \E prior \in BOOLEAN :
       IF prior
         THEN /\ csv = <<[name |-> PriorName, status |-> Pending]>>
              /\ pointer = JList(<<PriorEntry>>)
              /\ history = JList(<<PriorEntry>>)
         ELSE /\ csv = <<>>
              /\ pointer = Absent
              /\ history = Absent
  /\ unsynced = {}
  /\ s_pc = "idle"
  /\ s_target = 0
  /\ s_res = FALSE
  /\ s_data = <<>>
  /\ s_hist = <<>>
  /\ s_rows = <<>>
  /\ s_runs = 0
  /\ s_outcome = "none"
  /\ force_mode = FALSE
  /\ all_sky_enabled = FALSE
  /\ s_hint = NoValue
  /\ s_passes = <<>>

NextRecon ==
  \/ A_Get \/ A_Decode \/ A_Csv \/ A_PtrOpen \/ A_PtrDump
  \/ A_HistRead \/ A_HistOpen \/ A_HistDump \/ A_TaskDone
  \/ S_Start \/ S_Solve \/ S_Check \/ S_PtrWrite
  \/ S_LogsJson \/ S_HistWrite \/ S_CsvRead \/ S_CsvWrite

SpecRecon == InitRecon /\ [][NextRecon]_vars

\* ------------------------------------------------------------ analyzer and shutdown
\* The Analyzer alone over a fresh log directory, with the records the
\* Downloader forwarded, main waiting for the queues to drain, and the kernel
\* writing cached file data back.
InitAna == InitRecon /\ pointer = Absent

NextAna ==
  \/ A_Get \/ A_Decode \/ A_Csv \/ A_PtrOpen \/ A_PtrDump
  \/ A_HistRead \/ A_HistOpen \/ A_HistDump \/ A_TaskDone \/ A_Exit
  \/ M_CheckD \/ M_CheckA \/ M_Interrupt \/ M_Finally
  \/ M_JoinD \/ M_JoinA \/ M_SetStop
  \/ D_Exit
  \/ E_WriteBack

SpecAna == InitAna /\ [][NextAna]_vars

\* ------------------------------------------------------------ stability detection
\* The Downloader has just paired the record of the only shot with the only
\* file of the listing, whose size the listing gave as any of StabSizes; the
\* store answers every size request, with any of StabSizes.
StabSizes == 0..MaxStab

InitStab ==
  /\ m_pc = "cleanup"
  /\ target_shots = 1
  /\ shot_count = 1
  /\ shutter = FALSE
  /\ interrupted = FALSE
  /\ triggers = 1
  /\ pushed = <<1>>
  /\ indi_src = MaxTele
  /\ obs_data = NoObs
  /\ queries = 1
  /\ ConvIdle
  /\ download_q = <<>>
  /\ unfinished_d = 1
  /\ analysis_q = <<>>
  /\ unfinished_a = 0
  /\ stop_event = FALSE
  /\ remote = <<"dng">>
  /\ d_pc = "poll"
  /\ last_target = Target
  /\ known_files = {}
  /\ listing = 1
  /\ idx = 1
  /\ shot_data = ShotRecord(1, GetObservationData(MaxTele))
  /\ current_fsize \in StabSizes
  /\ poll_i = 0
  /\ fails_left = 0
  /\ last_obs = current_fsize
  /\ obs_stable = FALSE
  /\ pairings = <<<<1, 1>>>>
  /\ forwarded = <<>>
  /\ cold = "after"
  /\ a_pc = "loop"
  /\ shot = NoShot
  /\ attempt = 0
  /\ ex = NoFields
  /\ h = <<>>
  /\ csv_head = TRUE
  /\ csv = <<>>
  /\ pointer = Absent
  /\ history = Absent
  /\ unsynced = {}
  /\ s_pc = "idle"
  /\ s_target = 0
  /\ s_res = FALSE
  /\ s_data = <<>>
  /\ s_hist = <<>>
  /\ s_rows = <<>>
  /\ s_runs = 0
  /\ s_outcome = "none"
  /\ force_mode = FALSE
  /\ all_sky_enabled = FALSE
  /\ s_hint = NoValue
  /\ s_passes = <<>>

NextStab == D_PollWith({TRUE}, StabSizes) \/ D_Fetch

SpecStab == InitStab /\ [][NextStab]_vars

\* ------------------------------------------------------------ pipeline and telemetry
\* A run of MaxShots shots against a store that already holds a file, with an
\* INDI server that may be unreachable at any query and whose reading changes
\* while records are in flight.
InitTel ==
  /\ Start(0)
  /\ target_shots = MaxShots
  /\ remote # <<>>
  /\ indi_src \in Sources
  /\ obs_data = NoObs
  /\ queries = 0
  /\ ConvIdle

NextTel == Next \/ E_Telemetry

SpecTel == InitTel /\ [][NextTel]_vars
\* ------------------------------------------------------------ capture loop, any shot count
\* The capture loop and the Downloader for every shot count the command line
\* may give, a negative one included (int(args_pos[0])).
ShotCounts == (-1)..MaxShots

InitLoop == StartWith(0, ShotCounts) /\ IndiSteady /\ ConvIdle

NextLoop == NextDown

SpecLoop == InitLoop /\ [][NextLoop]_vars

\* ------------------------------------------------------------ one file per trigger
\* The capture loop and the Downloader with a camera that writes exactly one
\* file for every trigger: the file of the k-th pulse is the k-th file of the
\* directory and shows in a listing at some time after that pulse has begun;
\* the directory is empty at the start and no fetch fails.
E_TriggerFile ==
  /\ Len(remote) < triggers
  /\ remote' = Append(remote, "dng")
  /\ UNCHANGED <<mainVars, queueVars, downVars, anaVars, fileVars, sseVars>>
  /\ UNCHANGED <<teleVars, convVars>>

InitPair == StartWith(0, 1..MaxShots) /\ remote = <<>> /\ IndiSteady /\ ConvIdle

NextPair ==
  \/ M_LoopTest \/ M_ShutterOn \/ M_ShutterOff \/ M_Put \/ M_Cool
  \/ M_CheckD \/ M_CheckA \/ M_Interrupt \/ M_Finally \/ M_JoinD
  \/ E_TriggerFile
  \/ D_ListDirs \/ D_ListFiles \/ D_Scan \/ D_Poll \/ D_Fetch

SpecPair == InitPair /\ [][NextPair]_vars

\* ------------------------------------------------------------ the legacy engine
\* shutter03.py: the Downloader's loop has the text of the current one up to
\* the pairing; the size polls and the fetch are not in a try block of their
\* own, so whatever they raise is caught by the except of the file walk.
L_ListDirs == D_ListDirs
L_ListFiles == D_ListFiles
L_Scan == D_Scan

\* shot_data.local_path, file_format and file_size_mb; the file keeps its name
LegacyCompleted(rec, f, size) == [rec EXCEPT !.local_path = f, !.file_size = size]

\* except: pass of the file walk: the queue is not touched
OnWalkError(q, rec) == q

\* the walk is abandoned: except: pass, time.sleep(1), next loop iteration
WalkAbandoned ==
  /\ fails_left > 0
  /\ fails_left' = fails_left - 1
  /\ download_q' = OnWalkError(download_q, shot_data)
  /\ shot_data' = NoShot
  /\ current_fsize' = 0
  /\ poll_i' = 0
  /\ last_obs' = 0
  /\ obs_stable' = FALSE
  /\ d_pc' = "loop"
  /\ UNCHANGED <<idx, known_files, forwarded, analysis_q, unfinished_a, unfinished_d>>

\* one iteration of for _ in range(25): the size request raises, or reports
\* a size
L_Poll ==
  /\ d_pc = "poll"
  /\ \E ok \in BOOLEAN, new_size \in Sizes :
       IF ~ok
         THEN WalkAbandoned
         ELSE /\ obs_stable' = (new_size > 0 /\ new_size = last_obs)
              /\ last_obs' = new_size
              /\ IF Stable(new_size, current_fsize)
                   THEN /\ d_pc' = "fetch"
                        /\ UNCHANGED <<current_fsize, poll_i>>
                   ELSE /\ current_fsize' = new_size
                        /\ poll_i' = poll_i + 1
                        /\ d_pc' = IF Exhausted(poll_i + 1) THEN "fetch" ELSE "poll"
              /\ UNCHANGED <<idx, known_files, forwarded, analysis_q, unfinished_a,
                             unfinished_d, download_q, shot_data, fails_left>>
  /\ UNCHANGED <<last_target, listing, pairings, cold>>
  /\ UNCHANGED <<mainVars, stop_event, remote, anaVars, fileVars, sseVars>>
  /\ UNCHANGED <<teleVars, convVars>>

\* the fetch and the local write, then analysis_queue.put, task_done and
\* known_files.add; or the request or the write raises
L_Fetch ==
  /\ d_pc = "fetch"
  /\ \E ok \in BOOLEAN :
       IF ok
         THEN /\ analysis_q' = Append(analysis_q, LegacyCompleted(shot_data, idx, current_fsize))
              /\ unfinished_a' = unfinished_a + 1
              /\ unfinished_d' = unfinished_d - 1
              /\ known_files' = known_files \cup {idx}
              /\ forwarded' = Append(forwarded,
                    [id |-> shot_data.id, file |-> idx, local_path |-> idx,
                     stable |-> obs_stable, exhausted |-> (poll_i >= PollBudget)])
              /\ shot_data' = NoShot
              /\ current_fsize' = 0
              /\ poll_i' = 0
              /\ last_obs' = 0
              /\ obs_stable' = FALSE
              /\ idx' = idx + 1
              /\ d_pc' = "scan"
              /\ UNCHANGED <<download_q, fails_left>>
         ELSE WalkAbandoned
  /\ UNCHANGED <<last_target, listing, pairings, cold>>
  /\ UNCHANGED <<mainVars, stop_event, remote, anaVars, fileVars, sseVars>>
  /\ UNCHANGED <<teleVars, convVars>>

\* finally: download_q.join()
L_JoinD == M_JoinD

\* The capture loop has pushed MaxShots records and main is in its finally
\* block; the Downloader has not had a listing yet.
InitLegacy ==
  /\ m_pc = "join_d"
  /\ target_shots = MaxShots
  /\ shot_count = MaxShots
  /\ shutter = FALSE
  /\ interrupted \in BOOLEAN
  /\ triggers = MaxShots
  /\ pushed = [i \in 1..MaxShots |-> i]
  /\ IndiSteady
  /\ ConvIdle
  /\ download_q = [i \in 1..MaxShots |-> ShotRecord(i, GetObservationData(MaxTele))]
  /\ unfinished_d = MaxShots
  /\ analysis_q = <<>>
  /\ unfinished_a = 0
  /\ stop_event = FALSE
  /\ remote \in {<<>>, <<"dng">>}
  /\ d_pc = "loop"
  /\ last_target = NoTarget
  /\ known_files = {}
  /\ listing = 0
  /\ idx = 0
  /\ shot_data = NoShot
  /\ current_fsize = 0
  /\ poll_i = 0
  /\ fails_left = MaxFetchFail
  /\ last_obs = 0
  /\ obs_stable = FALSE
  /\ pairings = <<>>
  /\ forwarded = <<>>
  /\ cold = "before"
  /\ a_pc = "start"
  /\ shot = NoShot
  /\ attempt = 0
  /\ ex = NoFields
  /\ h = <<>>
  /\ FreshLogs
  /\ SseIdle
  /\ PlainFlags

NextLegacy ==
  \/ L_ListDirs \/ L_ListFiles \/ L_Scan \/ L_Poll \/ L_Fetch
  \/ L_JoinD
  \/ E_NewFile

SpecLegacy == InitLegacy /\ [][NextLegacy]_vars

\* ------------------------------------------------------------ annotator, select mode
\* `SSE.py select <file>` run MaxRuns times, with any flags, over the log
\* directory of a finished session: up to MaxFiles entries as the Analyzer
\* wrote them (status pending), with or without an RA from the mount, two of
\* which may carry the same file name (a file paired with two records).
LoggedEntry(n, src) ==
  [name |-> n, rec |-> 0, indi |-> GetObservationData(src), decoded |-> "full",
   analysis |-> Pending]

Archives ==
  UNION {[1..k -> {LoggedEntry(n, src) : n \in 1..MaxFiles, src \in Sources}] :
           k \in 0..MaxFiles}

RowsOf(entries) == [i \in 1..Len(entries) |-> [name |-> entries[i].name, status |-> Pending]]

InitSel ==
  /\ Threads(0, {0})
  /\ remote = <<>>
  /\ IndiSteady
  /\ ConvIdle
  /\ csv_head = TRUE
  /\ \E entries \in Archives :
       /\ history = IF entries = <<>> THEN Absent ELSE JList(entries)
       /\ csv = RowsOf(entries)
  /\ pointer = Absent
  /\ unsynced = {}
  /\ SseIdle
  /\ force_mode \in BOOLEAN
  /\ all_sky_enabled \in BOOLEAN

NextSel ==
  \/ T_Start \/ T_Solve
  \/ S_LogsJson \/ S_HistWrite \/ S_CsvRead \/ S_CsvWrite

SpecSel == InitSel /\ [][NextSel]_vars

\* ------------------------------------------------------------ conversions
\* One get_observation_data() call for every pair of property values below:
\* an RA text of every minute and second of the sampled hours, DEC texts in
\* decimal and sexagesimal form of either sign, and the values a mount that is
\* absent or not aligned gives (no value, an empty text, a text that is no
\* number).
HmsText(hh, mm, ss) == Fmt02(hh) \o <<":">> \o Fmt02(mm) \o <<":">> \o Fmt02(ss)

RaTexts ==
  {Text(HmsText(hh, mm, ss)) : hh \in (0..MaxHour) \cup {12, 23}, mm \in 0..59, ss \in 0..59}

DecTexts ==
  {Text(<<sg>> \o Decimal(d) \o f) :
     sg \in {"-", "+"}, d \in {0, 34, 89}, f \in {<<>>, <<".", "5">>, <<".", "2", "5">>}}
  \cup {Text(<<sg>> \o HmsText(d, mm, 0)) : sg \in {"-", "+"}, d \in {0, 34}, mm \in {0, 30}}

BadTexts == {NoText, Text(<<>>), Text(<<"N", "/", "A">>)}

InitConv ==
  /\ Start(0)
  /\ target_shots = MaxShots
  /\ remote = <<>>
  /\ IndiSteady
  /\ conv_in \in [ra : RaTexts, dec : {Text(<<"+">> \o HmsText(0, 0, 0))}]
                 \cup [ra : {Text(HmsText(12, 30, 0))}, dec : DecTexts]
                 \cup [ra : BadTexts \cup {Text(HmsText(12, 30, 0))}, dec : BadTexts]
                 \cup [ra : BadTexts, dec : {Text(<<"-", "3", "4", ".", "5">>)}]
  /\ conv_out = NoOut

NextConv == V_Convert

SpecConv == InitConv /\ [][NextConv]_vars

\* ------------------------------------------------------------ properties
\* the identity of a pointer file that holds a whole entry, 0 otherwise
PtrName(file) ==
  IF file.kind \in {"dict", "list"} /\ Len(file.entries) >= 1
    THEN file.entries[1].name ELSE 0

EntryNames(file) == [i \in 1..Len(file.entries) |-> file.entries[i].name]
IsPrefix(a, b) == Len(a) <= Len(b) /\ \A i \in 1..Len(a) : a[i] = b[i]

\* the step in which process_latest compares the fingerprint
CheckStep == s_pc = "check" /\ s_pc' # "check"
\* the step that ends a process_latest run
RunEnds == s_pc # "idle" /\ s_pc' = "idle"

C2_MatchIsApplied ==
  [][/\ (CheckStep /\ PtrName(pointer) = s_target)
          => (s_outcome' = "match" /\ s_pc' = "ptr_write")
     /\ (s_pc = "ptr_write" /\ s_pc' # "ptr_write")
          => /\ HasHead(pointer')
             /\ HeadName(pointer') = s_target
             /\ pointer'.entries[1].analysis = SolveStatus(s_res)]_vars

\* C2 witness: a run that matched has rewritten the pointer with its result.
C2_Witness ==
  /\ s_outcome = "match"
  /\ s_pc = "logs"
  /\ HasHead(pointer)
  /\ HeadName(pointer) = s_target
  /\ pointer.entries[1].analysis = SolveStatus(s_res)

ArchiveAnnotated(file, target_filename, res) ==
  /\ file.kind = "list"
  /\ \E i \in 1..Len(file.entries) : file.entries[i].name = target_filename
  /\ \A i \in 1..Len(file.entries) :
       file.entries[i].name = target_filename
         => file.entries[i].analysis = SolveStatus(res)
RowsAnnotated(rows, target_filename, res) ==
  \A i \in 1..Len(rows) :
    rows[i].name = target_filename => rows[i].status = SolveStatus(res)

C5_ArchiveAppendOnly ==
  [][(history.kind = "list" /\ history'.kind = "list")
       => IsPrefix(EntryNames(history), EntryNames(history'))]_vars

\* the remote files in the order the Downloader first paired them
RECURSIVE FirstPaired(_, _)
FirstPaired(ps, seen) ==
  IF ps = <<>> THEN <<>>
  ELSE IF Head(ps)[2] \in seen THEN FirstPaired(Tail(ps), seen)
  ELSE <<Head(ps)[2]>> \o FirstPaired(Tail(ps), seen \cup {Head(ps)[2]})

\* C6: FIFO pairing: the n-th record put by the capture loop is forwarded to
\* the Analysis Queue with the n-th remote file the Downloader paired.
C6_FifoPairing ==
  \A k \in 1..Len(forwarded) :
    LET n == forwarded[k].id
        files == FirstPaired(pairings, {})
    IN  /\ n <= Len(files)
        /\ forwarded[k].file = files[n]

AfterLoop == m_pc \in {"cleanup", "cleanup2", "finally", "join_d", "join_a",
                       "set_stop", "done"}

\* C7 (as stated): once the capture loop is left, the Correlation Queue has
\* received exactly one record per trigger issued.
C7_PutPerTrigger == AfterLoop => Len(pushed) = triggers

\* C7 (amended): the capture loop puts its records in trigger order, one for
\* every trigger whose iteration reaches the put: the triggers outnumber the
\* puts by one exactly while the pulse is held or the put is still to come, a
\* difference that stays only if the run is interrupted there; a run with a
\* positive shot count that is not interrupted has put target_shots records
\* for target_shots triggers when it leaves the loop.
C7_PutPerCompletedTrigger ==
  /\ pushed = [i \in 1..Len(pushed) |-> i]
  /\ triggers \in {Len(pushed), Len(pushed) + 1}
  /\ m_pc \in {"hold", "put"} => triggers = Len(pushed) + 1
  /\ triggers = Len(pushed) + 1 => (m_pc \in {"hold", "put"} \/ interrupted)
  /\ (AfterLoop /\ ~interrupted /\ target_shots > 0)
       => (Len(pushed) = target_shots /\ triggers = target_shots)

\* C7 witness: two triggers, two records, the loop left without an interrupt.
C7_Witness ==
  /\ AfterLoop /\ ~interrupted
  /\ triggers = 2
  /\ pushed = <<1, 2>>

\* C8: cold start: no file of the first successful file listing is paired.
C8_ColdStartNotPaired == cold = "first" => pairings = <<>>

\* C9 (as stated): every forwarded record has a local path and a remote file
\* whose last two size observations were equal and non-zero.
C9_ForwardedStable ==
  \A k \in 1..Len(forwarded) :
    forwarded[k].local_path # 0 /\ forwarded[k].stable

\* C9 (amended): every forwarded record has a local path, and its remote
\* file's last two size observations were equal and non-zero unless the 25
\* polls of the stability check were used up.
C9_ForwardedStableOrExhausted ==
  \A k \in 1..Len(forwarded) :
    /\ forwarded[k].local_path # 0
    /\ forwarded[k].stable \/ forwarded[k].exhausted

\* C9 witness: a record forwarded after 25 polls without a stable size.
C9_Witness ==
  \E k \in 1..Len(forwarded) :
    forwarded[k].exhausted /\ ~forwarded[k].stable /\ forwarded[k].local_path # 0

\* C10: after a failed fetch the paired record is back at the front of the
\* Correlation Queue.
C10_RequeuedAtFront ==
  [][(d_pc = "fetch" /\ download_q' # download_q)
       => Head(download_q') = shot_data]_vars

\* how many times the Downloader has paired remote file f with a record
PairCount(f) == Cardinality({k \in 1..Len(pairings) : pairings[k][2] = f})

\* C11: every remote file is paired a bounded number of times: a file that is
\* marked seen (downloaded) is not paired again, and no file is paired more
\* than twice (the first pairing and the single retry pass), however often its
\* fetch fails.
C11_BoundedPairing ==
  \A f \in 1..Len(remote) :
    /\ PairCount(f) <= 2
    /\ (f \in known_files /\ d_pc \in {"poll", "fetch"}) => idx # f

\* the step in which the walk reaches an accepted, unseen file while the
\* Correlation Queue is empty
MissStep ==
  /\ d_pc = "scan" /\ idx <= listing
  /\ remote[idx] \in AcceptedExt /\ idx \notin known_files
  /\ download_q = <<>>
  /\ idx' # idx

\* the names the log files hold
LoggedNames ==
  {csv[i].name : i \in 1..Len(csv)}
    \cup {pointer.entries[i].name : i \in 1..Len(pointer.entries)}
    \cup {history.entries[i].name : i \in 1..Len(history.entries)}

\* the accepted files marked seen without ever having been paired
MissedFiles == {f \in known_files : PairCount(f) = 0 /\ remote[f] \in AcceptedExt}

\* C12: correlation miss: an accepted file the walk reaches while the
\* Correlation Queue is empty is marked seen in that step, without a pairing or
\* a download; a file marked seen stays seen, is not paired or downloaded in
\* any later step, and no row or entry of the log files carries its name.
C12_MissIsDropped ==
  [][/\ MissStep => /\ idx \in known_files'
                    /\ pairings' = pairings
                    /\ forwarded' = forwarded
     /\ known_files \subseteq known_files'
     /\ pairings' # pairings => pairings'[Len(pairings')][2] \notin known_files
     /\ forwarded' # forwarded => forwarded'[Len(forwarded')].file \notin known_files
     /\ MissedFiles' \cap LoggedNames' = {}]_vars

\* C12 witness: a file was missed, and a record pushed later has been paired
\* with another file and archived.
C12_Witness ==
  /\ MissedFiles # {}
  /\ Len(forwarded) >= 1
  /\ history.kind = "list" /\ Len(history.entries) >= 1

\* C13: the stop signal is set only after the capture loop has stopped and
\* every record it pushed has left both queues and finished processing: when
\* stop_event is set, main is past its joins, both queues are empty, the
\* Downloader and the Analyzer hold no record, and every pushed record has
\* been forwarded; after an interrupt as well as after normal completion.
C13_StopAfterDrain ==
  stop_event =>
    /\ m_pc = "done"
    /\ download_q = <<>> /\ analysis_q = <<>>
    /\ shot_data = NoShot /\ d_pc \in {"loop", "files", "scan", "exit"}
    /\ shot = NoShot /\ a_pc \in {"start", "loop", "exit"}
    /\ {forwarded[k].id : k \in 1..Len(forwarded)} = {pushed[k] : k \in 1..Len(pushed)}

\* C13 witness: the stop signal is set at the end of an interrupted run whose
\* records went through both queues.
C13_Witness ==
  /\ stop_event /\ interrupted
  /\ Len(pushed) >= 1
  /\ history.kind = "list" /\ Len(history.entries) >= 1

\* every record the capture loop pushed has been forwarded to the Analysis Queue
AllForwarded ==
  {forwarded[k].id : k \in 1..Len(forwarded)} = {pushed[k] : k \in 1..Len(pushed)}

\* C14: shutdown goes through once the work is done: when the capture loop has
\* finished, main waits in download_q.join() and every pushed record has been
\* downloaded and forwarded (queue empty, nothing held by the Downloader), the
\* join can return, so that the stop signal gets set; whatever fetch failures
\* happened before.
C14_ShutdownProceeds ==
  (m_pc = "join_d" /\ AllForwarded /\ download_q = <<>> /\ shot_data = NoShot)
    => unfinished_d = 0

\* C15: the Downloader loop, and likewise the Analyzer loop, exits only at its
\* loop test and only when the stop signal is set and its input queue is
\* empty; at the loop test with both true its next step is the exit, and with
\* a non-empty input queue its next step is another iteration.
C15_ExitOnlyWhenDrained ==
  [][/\ (d_pc # "exit" /\ d_pc' = "exit")
          => (d_pc = "loop" /\ stop_event /\ download_q = <<>>)
     /\ (a_pc # "exit" /\ a_pc' = "exit")
          => (a_pc = "loop" /\ stop_event /\ analysis_q = <<>>)
     /\ (d_pc = "loop" /\ stop_event /\ download_q = <<>> /\ d_pc' # d_pc)
          => d_pc' = "exit"
     /\ (a_pc = "loop" /\ stop_event /\ analysis_q = <<>> /\ a_pc' # a_pc)
          => a_pc' = "exit"
     /\ (d_pc = "loop" /\ download_q # <<>> /\ d_pc' # d_pc) => d_pc' = "files"
     /\ (a_pc = "loop" /\ analysis_q # <<>> /\ a_pc' # a_pc) => a_pc' = "decode"]_vars

\* C15 witness: both loops have exited after records went through them.
C15_Witness ==
  /\ d_pc = "exit" /\ a_pc = "exit"
  /\ stop_event /\ download_q = <<>> /\ analysis_q = <<>>
  /\ Len(forwarded) >= 1

\* the steps in which a request of the Downloader failed
ListFailed == d_pc = "files" /\ d_pc' \notin {"files", "scan"}
FetchFailed == d_pc = "fetch" /\ fails_left' # fails_left

\* C16: no failed directory listing, file listing, size poll or fetch ends the
\* Downloader loop: a failed file listing leads back to the loop test, a size
\* poll (failed or not) to the next poll or to the fetch, a failed fetch to the
\* next line of the listing with the record back on the Correlation Queue; the
\* loop is left only at its loop test.
C16_FailuresAreNotFatal ==
  [][/\ ListFailed => d_pc' = "loop"
     /\ (d_pc = "poll" /\ d_pc' # d_pc) => d_pc' = "fetch"
     /\ FetchFailed => /\ d_pc' = "scan"
                       /\ \E k \in 1..Len(download_q') : download_q'[k] = shot_data
     /\ (d_pc # "exit" /\ d_pc' = "exit") => (d_pc = "loop" /\ ~D_Running)]_vars

\* C16 witness: after a failed fetch the loop went on and forwarded a record.
C16_Witness ==
  /\ fails_left < MaxFetchFail
  /\ Len(forwarded) >= 1
  /\ d_pc = "loop"

\* the step that ends the decode loop of a record, and the step that closes
\* the rewritten archive
DecodeDone == a_pc = "decode" /\ a_pc' = "csv"
Archived == a_pc = "hist_dump" /\ a_pc' = "task_done"
LastEntry(file) == file.entries[Len(file.entries)]

C18_FirstSuccessEndsDecoding ==
  [][/\ a_pc = "decode" => ex # "full"
     /\ (a_pc = "decode" /\ ex' = "full")
          => (a_pc' = "csv" /\ attempt' <= DecodeBudget)
     /\ (a_pc \in {"csv", "ptr_open", "ptr_dump", "hist_read", "hist_open", "hist_dump"})
          => ex' = ex
     /\ (a_pc = "ptr_dump" /\ a_pc' # a_pc /\ ex = "full" /\ pointer' # Torn)
          => pointer'.entries[1].decoded = "full"
     /\ (Archived /\ ex = "full")
          => /\ history'.kind = "list"
             /\ LastEntry(history').decoded = "full"
             /\ LastEntry(history').name = shot.filename]_vars

\* C18 witness: two attempts threw, the third decoded the record, and the
\* loop has ended.
C18_Witness == a_pc = "csv" /\ attempt = 3 /\ ex = "full"

\* the number of records the Analyzer has finished (task_done): those put on
\* the Analysis Queue less the unfinished ones
Processed == Len(forwarded) - unfinished_a

\* the last n elements of a sequence, and what comes before them
LastN(q, n) == [i \in 1..n |-> q[Len(q) - n + i]]
Before(q, n) == [i \in 1..(Len(q) - n) |-> q[i]]

\* C19: whenever the Analyzer is between records, with k records finished the
\* flat log exists with its comment and header lines, its last k rows are the
\* rows of the k records in the order they were forwarded and no earlier row is
\* theirs; the same holds of the last k entries of the archive, each of them
\* pending; and, if no annotator has run, the latest pointer holds the newest
\* entry.
C19_OneRowOneEntryPerRecord ==
  (a_pc \in {"loop", "exit"} /\ Processed > 0) =>
    LET done == {forwarded[i].file : i \in 1..Processed} IN
    /\ csv_head
    /\ Len(csv) >= Processed
    /\ \A i \in 1..Processed :
         LastN(csv, Processed)[i] = [name |-> forwarded[i].file, status |-> Pending]
    /\ \A i \in 1..(Len(csv) - Processed) : Before(csv, Processed)[i].name \notin done
    /\ history.kind = "list"
    /\ Len(history.entries) >= Processed
    /\ \A i \in 1..Processed :
         /\ LastN(history.entries, Processed)[i].name = forwarded[i].file
         /\ LastN(history.entries, Processed)[i].rec = forwarded[i].id
         /\ LastN(history.entries, Processed)[i].analysis = Pending
    /\ \A i \in 1..(Len(history.entries) - Processed) :
         Before(history.entries, Processed)[i].name \notin done
    /\ s_runs = 0 => pointer = JDict(LastEntry(history))

\* C20: a failed storage write in the Analyzer reaches its caller: main is
\* never left waiting in analysis_q.join() for a record whose Analyzer thread
\* has ended on the write error.
C20_StorageFailureObserved ==
  ~(a_pc = Crashed /\ m_pc = "join_a" /\ unfinished_a > 0)

\* the steps in which process_latest opens and parses the latest pointer: the
\* fingerprint read at the start of a run and the read before the comparison
PointerRead == (s_runs' # s_runs /\ pointer # Absent) \/ CheckStep

\* a file whose bytes are one whole JSON text
Whole(file) == file.kind \in {"dict", "list"}

\* C21: every rewrite of the latest pointer is atomic for concurrent readers:
\* no read of the pointer by the annotator finds the file empty (truncated by
\* a writer that has not written yet) or holding the mixed bytes of two
\* writers.
C21_PointerReadsSeeWholeFile ==
  [][PointerRead => Whole(pointer)]_vars

\* the step in which the Analyzer reports a record done
ReportsDone == a_pc = "task_done" /\ a_pc' = "loop"

\* C22: when the Analyzer reports a record done (task_done), the flat log, the
\* latest pointer and the cumulative archive hold no write that has not been
\* forced to stable storage.
C22_DurableWhenDone ==
  [][ReportsDone => unsynced = {}]_vars

\* the snapshot of a query the INDI server did not answer, as the claim has it
\* (every value unknown) and as get_observation_data builds it
AllUnknown(obs) ==
  obs.latitude = NoValue /\ obs.ra_deg = NoValue /\ obs.weather_temp = NoValue
LastKnownSite(obs) ==
  /\ obs.latitude = LastLatitude /\ obs.tz_source = "last_known"
  /\ obs.ra_deg = NoValue /\ obs.weather_temp = NoValue

\* the steps of one iteration of the capture loop
Queried == m_pc = "loop" /\ shot_count' # shot_count
PutStep == m_pc = "put" /\ m_pc' = "cool"
NewRecord == download_q'[Len(download_q')]

\* C23 (as stated): a query the telemetry provider does not answer is followed
\* by the trigger and by the push of one record whose telemetry values are all
\* unknown/empty.
C23_UnreachableGivesEmptySnapshot ==
  [][/\ (Queried /\ indi_src = NoValue) => (m_pc' = "trigger" /\ AllUnknown(obs_data'))
     /\ (PutStep /\ obs_data.tz_source # "gps") => AllUnknown(NewRecord.indi_data)]_vars

\* C23 (amended): a query the telemetry provider does not answer does not end
\* the iteration: the trigger is the next step of the loop, the put appends
\* exactly one record, which carries unknown pointing and weather values and
\* the configured last known site position marked "last_known", and after the
\* cool-down the loop goes on as after any other shot.
C23_UnreachableGivesLastKnownSite ==
  [][/\ (Queried /\ indi_src = NoValue) => (m_pc' = "trigger" /\ LastKnownSite(obs_data'))
     /\ (m_pc = "trigger" /\ m_pc' \notin {"trigger", "finally"})
          => (m_pc' = "hold" /\ shutter' /\ triggers' = triggers + 1)
     /\ PutStep => /\ Len(download_q') = Len(download_q) + 1
                   /\ NewRecord.id = shot_count
                   /\ NewRecord.indi_data = obs_data
                   /\ obs_data.tz_source # "gps" => LastKnownSite(NewRecord.indi_data)
     /\ download_q' # download_q /\ m_pc' # m_pc => PutStep
     /\ (m_pc = "cool" /\ m_pc' \notin {"cool", "finally"})
          => m_pc' = IF target_shots > 0 /\ shot_count >= target_shots
                       THEN "cleanup" ELSE "loop"]_vars

\* C23 witness: the record of a shot taken with the provider unreachable is on
\* the Correlation Queue and the pulse of the next shot is active.
C23_Witness ==
  /\ download_q # <<>>
  /\ Head(download_q).id = 1
  /\ LastKnownSite(Head(download_q).indi_data)
  /\ m_pc = "hold" /\ shot_count = 2 /\ shutter

\* the telemetry snapshot of every record, wherever the pipeline holds it: in
\* a queue, in a worker's hands, in the latest pointer, in the archive or in
\* the Analyzer's copy of the archive
SeqSnaps(q) == {<<q[i].id, q[i].indi_data>> : i \in 1..Len(q)}
RecSnaps(r) == IF r = NoShot THEN {} ELSE {<<r.id, r.indi_data>>}
EntrySnaps(es) == {<<es[i].rec, es[i].indi>> : i \in 1..Len(es)}
Holders ==
  <<download_q, shot_data, analysis_q, shot, pointer.entries, history.entries, h>>
Snaps ==
  SeqSnaps(download_q) \cup RecSnaps(shot_data) \cup SeqSnaps(analysis_q)
    \cup RecSnaps(shot) \cup EntrySnaps(pointer.entries)
    \cup EntrySnaps(history.entries) \cup EntrySnaps(h)

\* C24: the capture loop queries the telemetry provider once before each
\* trigger and nowhere else; a snapshot enters the pipeline only with the put
\* of its record, as the capture loop took it; from then on no step of the
\* Downloader, the Analyzer or the provider changes the snapshot held for that
\* record, and the entry the Analyzer archives carries it.
C24_SnapshotFrozen ==
  [][/\ queries' # queries => (m_pc = "loop" /\ queries' = queries + 1)
     /\ triggers' # triggers => queries = triggers'
     /\ Holders' # Holders =>
          \A p \in Snaps' \ Snaps :
            /\ PutStep
            /\ p = <<shot_count, obs_data>>
            /\ \A o \in Snaps : o[1] # p[1]
     /\ Archived => /\ history'.kind = "list"
                    /\ LastEntry(history').rec = shot.id
                    /\ LastEntry(history').indi = shot.indi_data]_vars

\* C24 witness: the Analyzer has written the latest pointer of a record and is
\* about to archive it; the record's snapshot is a reading the provider gave
\* at trigger time, and the provider has since become unreachable.
C24_Witness ==
  /\ a_pc = "hist_dump"
  /\ shot.indi_data = GetObservationData(MaxTele)
  /\ pointer = JDict(JsonData(shot, ex))
  /\ indi_src = NoValue

\* the records taken from the Analysis Queue and not yet reported done
UnderAnalysis == unfinished_a - Len(analysis_q)

\* C25: at most one record is under analysis at any time, it is the oldest
\* record not yet reported done, and the cumulative archive holds the entries
\* of the records analysed so far in the order in which the Downloader put
\* them on the Analysis Queue.
C25_OneAtATimeInQueueOrder ==
  /\ UnderAnalysis \in {0, 1}
  /\ UnderAnalysis = 1 <=> shot # NoShot
  /\ shot # NoShot => shot.id = forwarded[Processed + 1].id
  /\ \A i \in 1..Len(analysis_q) :
       analysis_q[i].id = forwarded[Processed + UnderAnalysis + i].id
  /\ history.kind = "list" =>
       /\ Len(history.entries) = Processed + (IF a_pc = "task_done" THEN 1 ELSE 0)
       /\ \A i \in 1..Len(history.entries) :
            history.entries[i].rec = forwarded[i].id

\* C25 witness: two records went through the Analyzer one after the other, the
\* second shot first because its file was fetched first, and the archive holds
\* them in that order.
C25_Witness ==
  /\ a_pc = "loop" /\ unfinished_a = 0
  /\ history.kind = "list"
  /\ Len(history.entries) = 2
  /\ history.entries[1].rec = 2 /\ history.entries[2].rec = 1

\* a step of the stability check, and the step that ends it
PollStep == d_pc = "poll" /\ (poll_i' # poll_i \/ d_pc' # d_pc)
PollEnds == d_pc = "poll" /\ d_pc' = "fetch"

\* C26 (as stated): the stability check ends at a poll exactly if the size
\* observed at that poll is non-zero and equal to the observation before it.
C26_EndsAtFirstRepeat ==
  [][PollStep => (PollEnds <=> obs_stable')]_vars

\* C26 (amended): the stability check ends at the first poll whose size is
\* non-zero and equal to the observation before it (the listing's size being
\* the first observation); it ends at no poll before that one except the
\* 25th, where it ends whatever was observed.
C26_EndsAtFirstRepeatOrBudget ==
  [][PollStep => /\ ~obs_stable
                 /\ current_fsize = last_obs
                 /\ obs_stable' => PollEnds
                 /\ (PollEnds /\ ~obs_stable') => poll_i' = PollBudget
                 /\ ~PollEnds => poll_i' = poll_i + 1]_vars

\* C26 witness: the sizes observed were s, 2, 2 with s other than 2: the check
\* went past the first 2 (one iteration counted) and ended on the second.
C26_Witness ==
  /\ d_pc = "fetch"
  /\ obs_stable
  /\ poll_i = 1
  /\ last_obs = 2 /\ current_fsize = 2

\* the step in which the Downloader forwards the record it holds
Forwards == d_pc = "fetch" /\ Len(analysis_q') = Len(analysis_q) + 1

\* C27: the stability check never goes past its budget: a poll, failed or
\* not, leads to the next poll or to the fetch; at most 25 polls are made
\* (poll_i counts those that did not end the check), the 25th is followed by
\* the fetch; and the record forwarded after the fetch carries the size last
\* observed.
C27_AtMostPollBudgetPolls ==
  [][/\ poll_i <= PollBudget
     /\ d_pc = "poll" => poll_i < PollBudget
     /\ PollStep => /\ d_pc' \in {"poll", "fetch"}
                    /\ poll_i' \in {poll_i, poll_i + 1}
                    /\ poll_i' = poll_i => PollEnds
                    /\ poll_i' = PollBudget => PollEnds
     /\ d_pc \in {"poll", "fetch"} => current_fsize = last_obs
     /\ Forwards => analysis_q'[Len(analysis_q')].file_size = last_obs]_vars

\* C27 witness: a file whose size was still 0 or changing at every answered
\* poll has been forwarded after the 25th poll, with the size seen last.
C27_Witness ==
  \E k \in 1..Len(forwarded) :
    /\ forwarded[k].exhausted /\ ~forwarded[k].stable
    /\ k <= Len(analysis_q)
    /\ analysis_q[k].id = forwarded[k].id
    /\ analysis_q[k].file_size = 1

\* ------------------------------------------------------------ C28
\* val is an hours:minutes:seconds text of two-digit fields in range
IsHms(val) ==
  /\ val.some
  /\ Len(val.text) = 8
  /\ val.text[3] = ":" /\ val.text[6] = ":"
  /\ \A i \in {1, 2, 4, 5, 7, 8} : IsDigit(val.text[i])
  /\ DigitsVal(SubSeq(val.text, 1, 2)) < 24
  /\ DigitsVal(SubSeq(val.text, 4, 5)) < 60
  /\ DigitsVal(SubSeq(val.text, 7, 8)) < 60

Converted == conv_out # NoOut

\* C28: for every hours:minutes:seconds text with integer fields in range,
\* _to_hms of _parse_sexagesimal of the text is the text again, and _to_dms
\* of the decimal -34.5 is "-34:30:00".
C28_SexagesimalRoundTrip ==
  Converted =>
    /\ IsHms(conv_in.ra) => conv_out.hms = conv_in.ra.text
    /\ conv_in.dec = Text(<<"-", "3", "4", ".", "5">>)
         => conv_out.dms = <<"-">> \o HmsText(34, 30, 0)

\* ------------------------------------------------------------ C29
\* val is a property value that is missing or is no number
Invalid(val) == parse_sexagesimal(val) = None

\* C29: when the right ascension or the declination is missing or not
\* numeric, the record's ra_hms is "00:00:00" and its dec_dms "+00:00:00".
C29_InvalidGivesZeroString ==
  Converted =>
    /\ Invalid(conv_in.ra) => conv_out.ra_hms = ZeroHms
    /\ Invalid(conv_in.dec) => conv_out.dec_dms = ZeroDms

\* ------------------------------------------------------------ C30
\* C30 (as stated): with a positive shot count the loop has activated the
\* pulse exactly that many times whenever it has ended, and with a shot count
\* of zero or less it has ended only by an interrupt.
C30_ExactlyNTriggers ==
  AfterLoop =>
    /\ target_shots > 0 => triggers = target_shots
    /\ target_shots <= 0 => interrupted

\* C30 (amended): with a positive shot count the loop never activates the
\* pulse more than that many times and has activated it exactly that many
\* times when it ends without an interrupt; with a shot count of zero or less
\* it ends only by an interrupt.
C30_ExactlyNUnlessInterrupted ==
  /\ target_shots > 0 => triggers <= target_shots
  /\ AfterLoop =>
       /\ (target_shots > 0 /\ ~interrupted) => triggers = target_shots
       /\ target_shots <= 0 => interrupted

\* C30 witness: MaxShots shots asked for, MaxShots pulses, the loop left by
\* its own test.
C30_Witness ==
  /\ target_shots = MaxShots
  /\ triggers = MaxShots
  /\ m_pc = "cleanup"
  /\ ~interrupted

\* ------------------------------------------------------------ C31
\* the archive entries the target's name selects
Selected(target_name) ==
  IF history.kind = "list"
    THEN {i \in 1..Len(history.entries) : NameIn(history.entries[i].name, target_name)}
    ELSE {}

SelectedRows(target_name) ==
  {i \in 1..Len(csv) : csv[i].name # 0 /\ NameIn(csv[i].name, target_name)}

\* a process_target call begins with this step
TargetCalled == s_pc = "idle" /\ s_runs' = s_runs + 1

\* C31: process_target is idempotent on solved captures. A call for a target
\* whose archive entries are all solved (status success), with force mode
\* off, runs no solve and leaves the cumulative archive and the flat log as
\* they are; a call with force mode on, or for a target whose entries are
\* not solved, runs a solve, and when that run ends the selected archive
\* entries and the selected rows of the flat log carry its result.
C31_IdempotentOnSolved ==
  [][/\ TargetCalled =>
          LET sel == Selected(s_target')
              solved == {i \in sel : history.entries[i].analysis = "success"}
          IN  /\ (sel # {} /\ solved = sel /\ ~force_mode) =>
                   /\ s_pc' = "idle"
                   /\ s_outcome' = "skipped"
                   /\ history' = history /\ csv' = csv
              /\ (force_mode \/ (sel # {} /\ solved = {})) =>
                   /\ s_pc' = "solve_target"
                   /\ s_outcome' = "running"
     /\ s_pc = "solve_target" => s_pc' = "logs" /\ history' = history /\ csv' = csv
     /\ (s_pc = "csv_write" /\ s_pc' = "idle") =>
          /\ \A i \in Selected(s_target)' :
               history'.entries[i].analysis = SolveStatus(s_res)
          /\ \A i \in SelectedRows(s_target)' : csv'[i].status = SolveStatus(s_res)
    ]_vars

\* a solved capture was selected again and skipped, and another call under
\* force mode has solved a solved capture again
C31_Witness ==
  /\ s_outcome = "skipped"
  /\ s_runs = 2
  /\ Selected(s_target) # {}
  /\ \A i \in Selected(s_target) : history.entries[i].analysis = "success"

C31_WitnessForced ==
  /\ force_mode
  /\ s_runs = 2
  /\ s_pc = "logs"
  /\ Selected(s_target) # {}
  /\ \A i \in Selected(s_target) : history.entries[i].analysis = "success"


\* ------------------------------------------------------------ C32
\* a step that is a call of solve()
SolveCalled == s_pc \in {"solve", "solve_target"}

\* C32: the solver runs its passes in the fixed order 1 to 6 and stops at the
\* first pass that succeeds. The passes of one solve() call are consecutive
\* numbers, none but the last one succeeded, and the call succeeds exactly
\* when its last pass did; a run that has started stops short of the last
\* pass open to it only on a success. Passes 1-3 run only with a
\* right-ascension hint, passes 4-6 only with all-sky enabled (and, by the
\* order, after every earlier pass failed); with no hint and all-sky disabled
\* no pass runs and the result is a failure.
C32_PassOrder ==
  [][SolveCalled =>
       LET calls == s_passes'
           n == Len(calls)
       IN  /\ \A i \in 1..(n - 1) :
                calls[i + 1][1] = calls[i][1] + 1 /\ ~calls[i][2]
           /\ s_res' = (n > 0 /\ calls[n][2])
           /\ n > 0 =>
                /\ calls[1][1] = IF s_hint # NoValue THEN 1 ELSE 4
                /\ calls[n][2] \/ calls[n][1] = IF all_sky_enabled THEN 6 ELSE 3
           /\ \A i \in 1..n :
                /\ calls[i][1] \in 1..3 => s_hint # NoValue
                /\ calls[i][1] \in 4..6 => all_sky_enabled
           /\ (s_hint = NoValue /\ ~all_sky_enabled) => n = 0 /\ ~s_res'
    ]_vars

\* a hinted solve with all-sky enabled failed passes 1 to 4 and matched in pass 5
C32_Witness ==
  /\ s_pc = "logs"
  /\ s_res
  /\ s_passes = <<<<1, FALSE>>, <<2, FALSE>>, <<3, FALSE>>, <<4, FALSE>>, <<5, TRUE>>>>


\* ------------------------------------------------------------ C33
\* the text of name n equals the text of x or occurs inside it
EqualsOrWithin(n, x) ==
  LET a == NameText(n)
      b == NameText(x)
  IN  a = b \/ \E i, j \in 1..Len(b) : SubSeq(b, i, j) = a

\* entry e with its analysis block taken out
Outside(e) == [name |-> e.name, rec |-> e.rec, indi |-> e.indi, decoded |-> e.decoded]

\* C33: an annotation for target filename X changes only the analysis block
\* of the archive entries whose file name equals X or is a substring of X.
\* Every step of an annotation run leaves the archive an array of the same
\* length in which the entries with another name are as they were and the
\* entries with such a name are as they were outside their analysis block;
\* and when no entry has such a name the archive file is not written.
C33_OnlyMatchingAnalysis ==
  [][s_pc # "idle" =>
       /\ history'.kind = history.kind
       /\ history.kind = "list" =>
            /\ Len(history'.entries) = Len(history.entries)
            /\ \A i \in 1..Len(history.entries) :
                 IF EqualsOrWithin(history.entries[i].name, s_target)
                   THEN Outside(history'.entries[i]) = Outside(history.entries[i])
                   ELSE history'.entries[i] = history.entries[i]
       /\ (history.kind = "list" /\
             \A i \in 1..Len(history.entries) :
               ~EqualsOrWithin(history.entries[i].name, s_target)) =>
            /\ history' = history
            /\ s_pc' # "hist_write"
    ]_vars

\* the archive holds two captures; the annotation for a copy of the first one,
\* whose name contains the first capture's name, has been written: the first
\* entry is solved, the second one is still pending
C33_Witness ==
  /\ s_pc = "csv_read"
  /\ s_target = CopyOf(1)
  /\ s_res
  /\ history.kind = "list"
  /\ Len(history.entries) = 2
  /\ history.entries[1].name = 1 /\ history.entries[1].analysis = "success"
  /\ history.entries[2].name = 2 /\ history.entries[2].analysis = Pending


\* ------------------------------------------------------------ C34
\* how often record r occurs in a queue or an array of entries
InQueue(q, r) == Cardinality({i \in 1..Len(q) : q[i].id = r})
InEntries(es, r) == Cardinality({i \in 1..Len(es) : es[i].rec = r})

\* the Downloader holds r from download_queue.get() to the put that ends its
\* handling; the Analyzer, while its thread lives, from analysis_queue.get()
\* until the archive with r's entry is written
HeldByDownloader(r) == IF shot_data.id = r THEN 1 ELSE 0
HeldByAnalyzer(r) == IF shot.id = r /\ a_pc \notin {"task_done", Crashed} THEN 1 ELSE 0

\* the archive is the file, and during the Analyzer's rewrite of the file
\* the array being written
ArchivedEntries == IF a_pc = "hist_dump" THEN h ELSE history.entries

Places(r) ==
  InQueue(download_q, r) + HeldByDownloader(r) + InQueue(analysis_q, r)
    + HeldByAnalyzer(r) + InEntries(ArchivedEntries, r)

Pushed == {pushed[i] : i \in 1..Len(pushed)}

\* C34: record conservation. At every moment each Capture Record the Trigger
\* Controller has pushed is in exactly one place: in the Correlation Queue,
\* held by the Downloader, in the Analysis Queue, held by the Analyzer, or
\* archived; so no record is lost or duplicated and none has two entries.
C34_RecordConservation == \A r \in Pushed : Places(r) = 1

\* the same while the Analyzer thread is alive
C34_ConservedWhileAnalyzerLives ==
  a_pc # Crashed => \A r \in Pushed : Places(r) = 1

\* no record is ever in two places
C34_NeverDuplicated == \A r \in Pushed : Places(r) <= 1


\* ------------------------------------------------------------ C35
\* C35: the Correlation Queue's unfinished-task count equals the number of
\* pushed records not yet forwarded to the Analysis Queue (so it is zero, and
\* download_q.join() returns, once every pushed record has been forwarded).
C35_UnfinishedCountsUnforwarded == unfinished_d = Len(pushed) - Len(forwarded)

\* the count is never below the number of records not yet forwarded
C35_UnfinishedAtLeastUnforwarded == unfinished_d >= Len(pushed) - Len(forwarded)


\* ------------------------------------------------------------ C36
\* the Analyzer has persisted every record and no annotator run is under way
BothFinished == a_pc = "loop" /\ analysis_q = <<>> /\ s_pc = "idle"

\* the latest pointer holds an entry that carries an annotation
PointerAnnotated ==
  /\ pointer.kind \in {"dict", "list"}
  /\ pointer.entries # <<>>
  /\ pointer.entries[1].analysis # Pending

C36_FeedNeverAnnotated ==
  PointerAnnotated => pointer.entries[1].name = PriorName


\* ------------------------------------------------------------ C37
\* C37: the latest pointer the Analyzer writes has the shape process_latest
\* reads. Every write of the pointer by the Analyzer leaves a file on which
\* the fingerprint read (head entry, record.file.name) succeeds and gives the
\* file name of the capture the Analyzer is archiving.
C37_PointerShapeReadable ==
  [][(a_pc = "ptr_dump" /\ a_pc' # "ptr_dump") =>
       HasHead(pointer') /\ HeadName(pointer') = shot.filename]_vars

\* what the Analyzer's write does leave: one JSON object with that file name
C37_PointerIsObject ==
  [][(a_pc = "ptr_dump" /\ a_pc' # "ptr_dump") =>
       pointer'.kind = "dict" /\ pointer'.entries[1].name = shot.filename]_vars


\* ------------------------------------------------------------ C38
\* C38: with one new remote file per trigger, visible at any time from the
\* start of the pulse, and no other file, each Capture Record is paired and
\* forwarded with the remote file its own trigger caused: record k with the
\* k-th file.
C38_OwnFile ==
  /\ \A i \in 1..Len(pairings) : pairings[i][2] = pairings[i][1]
  /\ \A i \in 1..Len(forwarded) : forwarded[i].file = forwarded[i].id

\* a file that a walk met while a record was waiting is that record's own
\* only if no file was passed over before
C38_OwnFileIfNoneSkipped ==
  (\A f \in known_files : \E i \in 1..Len(forwarded) : forwarded[i].file = f) =>
    \A i \in 1..Len(forwarded) : forwarded[i].file = forwarded[i].id


\* ------------------------------------------------------------ C39
\* main is past the capture loop: in its wait for the queues to empty, or in
\* the finally block after shutter.off()
LoopLeft == m_pc \in {"cleanup", "cleanup2", "join_d", "join_a", "set_stop", "done"}

\* C39: the pulse output is active only between the start and the end of a
\* hold inside the capture loop, and it is off whenever main waits for the
\* queues. It is on only in a hold, or in a hold that a user interrupt has
\* just ended and whose finally block has not yet run; every step out of a
\* hold or out of the finally block leaves it off.
C39_PulseOnlyInHold ==
  /\ []((shutter => (m_pc = "hold" \/ (m_pc = "finally" /\ interrupted)))
        /\ (LoopLeft => ~shutter))
  /\ [][(m_pc = "finally" /\ m_pc' # "finally") => ~shutter']_vars

\* an interrupt has ended a pulse whose record was not pushed, and main waits
\* for the queues with the output off
C39_Witness ==
  /\ interrupted
  /\ triggers > Len(pushed)
  /\ m_pc = "join_d"
  /\ ~shutter


\* ------------------------------------------------------------ C40
\* the records the Downloader has taken from the Correlation Queue
Taken == {pairings[i][1] : i \in 1..Len(pairings)}

\* C40: in the legacy engine a failure of a size poll or of the fetch does
\* not lose the Capture Record taken from the Correlation Queue. A record
\* the Downloader took and no longer handles has been forwarded to the
\* Analysis Queue or is back in the Correlation Queue, and the queue's
\* unfinished-task count is the number of records queued or in the
\* Downloader's hands, so that download_q.join() returns when all are
\* forwarded.
C40_LegacyKeepsRecord ==
  /\ \A r \in Taken :
       \/ shot_data.id = r
       \/ \E i \in 1..Len(forwarded) : forwarded[i].id = r
       \/ \E i \in 1..Len(download_q) : download_q[i].id = r
  /\ unfinished_d = Len(download_q) + (IF shot_data = NoShot THEN 0 ELSE 1)

\* without a failure every record taken is forwarded
C40_KeptWithoutFailure ==
  fails_left = MaxFetchFail =>
    \A r \in Taken :
      shot_data.id = r \/ \E i \in 1..Len(forwarded) : forwarded[i].id = r

====
